---- MODULE Spec2Model ----
(***************************************************************************)
(* A model of dotgithubindexer (src/main.go, second listing, lines 1132-   *)
(* 2516): the file database (<db>/repositories.yaml, <db>/workflows and    *)
(* <db>/dependabot), the audit run that fills it, its garbage collection   *)
(* and per-directory README files, and the two text-extraction functions   *)
(* extractCategory and parseUsesString, the decoding of a workflow into    *)
(* its uses (extractActionUses), the run's usage index and the two reports *)
(* written last (<db>/README.md and <db>/USES.md).                         *)
(*                                                                         *)
(* Text is modelled at character level: a Go string is a sequence of       *)
(* one-character strings.  A file name is the sequence of its              *)
(* dot-separated components ("index.yaml" is <<"index","yaml">>), a file   *)
(* body is a sequence of lines, each a sequence of strings.                *)
(***************************************************************************)
EXTENDS Integers, Sequences, FiniteSets, TLC

VARIABLES
    content,      \* extractCategory: the file content under classification
    category,     \* extractCategory: its result (<<>> while not yet computed)
    doc,          \* extractActionUses: the workflow document (sequence of line records)
    uses,         \* extractActionUses: the ActionUse list built so far
    scanned,      \* extractActionUses: number of document lines already visited
    manifest,     \* <db>/repositories.yaml: its body (<<>> while the file does not exist)
    workflows,    \* <db>/workflows: workflow file name -> directory (file name -> body)
    dependabot,   \* <db>/dependabot: category -> directory (file name -> body)
    pc,           \* auditGitHubActions: the statement the run is at
    runs,         \* number of audits started so far
    repos,        \* auditGitHubActions: the repositories fetchRepositories returned
    repoIdx,      \* position of the for loop over repos
    wfs,          \* the WorkflowFile list fetched for the current repository
    wfIdx,        \* position of the for loop over wfs
    dependabotFile, \* the DependabotFile fetched for the current repository (<<>>: nil)
    call,         \* the database call made last, with the files it wrote and removed
    faults,       \* number of failures injected so far (system calls failed, indexes damaged)
    summary,      \* <db>/README.md: <<body>>, <<>> while the file does not exist
    usesMd,       \* <db>/USES.md: <<body>>, <<>> while the file does not exist
    remote,       \* the organization's repositories and files as the API serves them
    usesIndex,    \* auditGitHubActions: usesIndex.Actions (action -> version -> references)
    attempted,    \* the post-processing stages the run has called, with their results
    returned      \* what auditGitHubActions returned ("" while it has not)

textVars == <<content, category, doc, uses, scanned>>
dbVars == <<manifest, workflows, dependabot, summary, usesMd>>
runVars == <<pc, runs, repos, repoIdx, wfs, wfIdx, dependabotFile, call, faults, remote,
            usesIndex, attempted, returned>>
vars == <<textVars, dbVars, runVars>>

(***************************************************************************)
(* Bounds of the text models.                                              *)
(***************************************************************************)
MaxLines == 3        \* lines per classified content
MaxDocLines == 3     \* lines per workflow document

(***************************************************************************)
(* Go's strings package, on sequences of characters.                       *)
(***************************************************************************)
\* unicode.IsSpace restricted to the characters the inputs are built from
Whitespace == {" ", "\t", "\n", "\r", "\f"}

RECURSIVE TrimLeft(_)
TrimLeft(s) ==
    IF s # <<>> /\ Head(s) \in Whitespace THEN TrimLeft(Tail(s)) ELSE s

RECURSIVE TrimRight(_)
TrimRight(s) ==
    IF s # <<>> /\ s[Len(s)] \in Whitespace
        THEN TrimRight(SubSeq(s, 1, Len(s) - 1))
        ELSE s

\* strings.TrimSpace
TrimSpace(s) == TrimRight(TrimLeft(s))

\* strings.HasPrefix
HasPrefix(s, p) == Len(s) >= Len(p) /\ SubSeq(s, 1, Len(p)) = p

\* strings.TrimPrefix
TrimPrefix(s, p) == IF HasPrefix(s, p) THEN SubSeq(s, Len(p) + 1, Len(s)) ELSE s

\* strings.Index: 0-based position of the first occurrence of sub, -1 if none
Index(s, sub) ==
    LET hits == {i \in 0..(Len(s) - Len(sub)) : SubSeq(s, i + 1, i + Len(sub)) = sub}
    IN  IF hits = {} THEN -1 ELSE CHOOSE i \in hits : \A j \in hits : i <= j

\* strings.Contains
Contains(s, sub) == Index(s, sub) # -1

\* Go slice expression s[from:] with a 0-based start
SliceFrom(s, from) == SubSeq(s, from + 1, Len(s))

\* strings.Split(s, sep) for a one-character separator
RECURSIVE Split(_, _)
Split(s, sep) ==
    LET i == Index(s, <<sep>>)
    IN  IF i = -1 THEN <<s>>
        ELSE <<SubSeq(s, 1, i)>> \o Split(SliceFrom(s, i + 1), sep)

\* strings.SplitN(s, sep, 2) for a one-character separator
SplitN2(s, sep) ==
    LET i == Index(s, <<sep>>)
    IN  IF i = -1 THEN <<s>> ELSE <<SubSeq(s, 1, i), SliceFrom(s, i + 1)>>

\* strings.Join(lines, "\n")
RECURSIVE JoinLines(_)
JoinLines(lines) ==
    IF lines = <<>> THEN <<>>
    ELSE IF Len(lines) = 1 THEN lines[1]
    ELSE lines[1] \o <<"\n">> \o JoinLines(Tail(lines))

\* The lines of a sequence of items (records with a field lines), in order
RECURSIVE LinesOf(_)
LinesOf(items) ==
    IF items = <<>> THEN <<>> ELSE Head(items).lines \o LinesOf(Tail(items))

\* All sequences over S of length at most n
SeqsUpTo(S, n) == UNION {[1..k -> S] : k \in 0..n}

(***************************************************************************)
(* extractCategory (src/main.go:1583-1598).                                *)
(***************************************************************************)
\* prefix := "# dotgithubindexer:"
prefix == <<"#", " ", "d", "o", "t", "g", "i", "t", "h", "u", "b",
            "i", "n", "d", "e", "x", "e", "r", ":">>

Default == <<"D", "e", "f", "a", "u", "l", "t">>

\* category := strings.TrimSpace(strings.TrimPrefix(trimmed, prefix))
payloadOfUntrimmed(trimmed) == TrimPrefix(trimmed, prefix)

payloadOf(trimmed) == TrimSpace(TrimPrefix(trimmed, prefix))

\* A loop that stops at the first marker line, whatever its payload
RECURSIVE extractCategoryLoopStopAtMarker(_)
extractCategoryLoopStopAtMarker(lines) ==
    IF lines = <<>> THEN Default
    ELSE LET trimmed == TrimSpace(Head(lines))
         IN  IF HasPrefix(trimmed, prefix)
                 THEN IF payloadOf(trimmed) # <<>> THEN payloadOf(trimmed) ELSE Default
                 ELSE extractCategoryLoopStopAtMarker(Tail(lines))

\* the for loop over lines: the first line with a non-empty payload returns
RECURSIVE extractCategoryLoop(_)
extractCategoryLoop(lines) ==
    IF lines = <<>> THEN Default
    ELSE LET trimmed == TrimSpace(Head(lines))
         IN  IF HasPrefix(trimmed, prefix) /\ payloadOf(trimmed) # <<>>
                 THEN payloadOf(trimmed)
                 ELSE extractCategoryLoop(Tail(lines))

extractCategory(c) == extractCategoryLoop(Split(c, "\n"))

(***************************************************************************)
(* parseUsesString (src/main.go:1543-1578).                                *)
(***************************************************************************)
usesKeyword == <<"u", "s", "e", "s", ":">>

\* A split at the last '@' instead of the first
splitUsesAtLast(usesStr) ==
    LET ats == {i \in 1..Len(usesStr) : usesStr[i] = "@"}
    IN  IF ats = {} THEN <<usesStr>>
        ELSE LET last == CHOOSE i \in ats : \A j \in ats : j <= i
             IN  <<SubSeq(usesStr, 1, last - 1), SubSeq(usesStr, last + 1, Len(usesStr))>>

\* parts := strings.SplitN(usesStr, "@", 2)
splitUses(usesStr) == SplitN2(usesStr, "@")

\* A search without the break: the last matching line
RECURSIVE findUsesLineNoBreak(_, _)
findUsesLineNoBreak(lines, usesStr) ==
    IF lines = <<>> THEN <<>>
    ELSE LET trimmedLine == TrimSpace(Head(lines))
             later == findUsesLineNoBreak(Tail(lines), usesStr)
         IN  IF later # <<>> THEN later
             ELSE IF Contains(trimmedLine, usesKeyword) /\ Contains(trimmedLine, usesStr)
                 THEN <<trimmedLine>>
                 ELSE <<>>

\* The loop's search: the first line whose trimmed text contains "uses:" and
\* usesStr (the loop breaks there); <<>> when no line does.
RECURSIVE findUsesLine(_, _)
findUsesLine(lines, usesStr) ==
    IF lines = <<>> THEN <<>>
    ELSE LET trimmedLine == TrimSpace(Head(lines))
         IN  IF Contains(trimmedLine, usesKeyword) /\ Contains(trimmedLine, usesStr)
                 THEN <<trimmedLine>>
                 ELSE findUsesLine(Tail(lines), usesStr)

\* A comment taken without strings.TrimSpace
inlineCommentUntrimmed(trimmedLine, usesStr) ==
    LET usesEndIdx == Index(trimmedLine, usesStr) + Len(usesStr)
    IN  IF usesEndIdx < Len(trimmedLine)
            THEN LET remainingLine == SliceFrom(trimmedLine, usesEndIdx)
                     commentIdx == Index(remainingLine, <<"#">>)
                 IN  IF commentIdx # -1
                         THEN SliceFrom(remainingLine, commentIdx + 1)
                         ELSE <<>>
            ELSE <<>>

\* The comment taken from the matched line: the trimmed text after the first
\* '#' that follows the first occurrence of usesStr; <<>> when there is none.
inlineComment(trimmedLine, usesStr) ==
    LET usesEndIdx == Index(trimmedLine, usesStr) + Len(usesStr)
    IN  IF usesEndIdx < Len(trimmedLine)
            THEN LET remainingLine == SliceFrom(trimmedLine, usesEndIdx)
                     commentIdx == Index(remainingLine, <<"#">>)
                 IN  IF commentIdx # -1
                         THEN TrimSpace(SliceFrom(remainingLine, commentIdx + 1))
                         ELSE <<>>
            ELSE <<>>

\* Returns <<action, version>>
parseUsesString(usesStr, workflowContent) ==
    LET parts == splitUses(usesStr)
    IN  IF Len(parts) # 2 THEN <<parts[1], <<>>>>
        ELSE LET found == findUsesLine(Split(workflowContent, "\n"), usesStr)
                 comment == IF found = <<>> THEN <<>>
                            ELSE inlineComment(found[1], usesStr)
             IN  IF comment # <<>>
                     THEN <<parts[1], parts[2] \o <<" ", "#", " ">> \o comment>>
                     ELSE <<parts[1], parts[2]>>

(***************************************************************************)
(* Workflow documents.  A document is a sequence of lines; a line is       *)
(* pre \o uses \o post, and step tells whether the YAML parser reads it as *)
(* a step whose `uses` value is the string uses.                           *)
(***************************************************************************)
stepPre == <<" ", " ", "-", " ">> \o usesKeyword \o <<" ">>
oldPre == <<" ", " ", "#", " ">> \o usesKeyword \o <<" ">>
xa == <<"x", "/", "a">>
v1 == <<"v", "1">>

Line(pre, u, post, step) == [pre |-> pre, uses |-> u, post |-> post, step |-> step]

UsesLines ==
    { Line(stepPre, xa \o <<"@">> \o v1, <<>>, TRUE),                     \* - uses: x/a@v1
      Line(stepPre, xa \o <<"@">> \o v1, <<" ", "#", " ", "p">>, TRUE),   \* - uses: x/a@v1 # p
      Line(stepPre, xa \o <<"@">> \o v1 \o <<"0">>, <<" ", "#", "t", " ">>, TRUE), \* - uses: x/a@v10 #t
      Line(stepPre, xa, <<>>, TRUE),                                       \* - uses: x/a
      Line(stepPre, xa \o <<"@">> \o v1 \o <<"@", "b">>, <<>>, TRUE),      \* - uses: x/a@v1@b
      Line(stepPre, xa \o <<"@">> \o v1, <<" ", "#">>, TRUE),              \* - uses: x/a@v1 #
      Line(oldPre, xa \o <<"@">> \o v1, <<" ", "#", " ", "o">>, FALSE),    \* # uses: x/a@v1 # o
      Line(<<"o", "n", ":", " ">>, <<"p">>, <<>>, FALSE) }                 \* on: p

LineText(l) == l.pre \o l.uses \o l.post

RECURSIVE DocLines(_)
DocLines(d) == IF d = <<>> THEN <<>> ELSE <<LineText(Head(d))>> \o DocLines(Tail(d))

\* the text handed to extractActionUses
DocText(d) == JoinLines(DocLines(d))

Docs == SeqsUpTo(UsesLines, MaxDocLines)

\* the repository and path extractActionUses is called with
docRepoName == "alpha"
docFilePath == <<<<"", "github">>, <<"workflows">>, <<"ci", "yml">>>>

(***************************************************************************)
(* extractActionUses (src/main.go:1483-1539) on the value yaml.Unmarshal   *)
(* decodes.  A document is [text, err, jobs]: err tells that Unmarshal     *)
(* into map[string]interface{} fails; jobs is workflow["jobs"], a node     *)
(* [kind, items]; a job is [kind, steps], steps being job["steps"], a node *)
(* [kind, items]; a step is [kind, uses], uses being step["uses"], a node  *)
(* [kind, str].  The items of a map node are in the order range visits     *)
(* them.                                                                   *)
(***************************************************************************)
MaxSteps == 2        \* steps per job of a decoded document

Absent == [kind |-> "absent", str |-> <<>>]
StringValue(u) == [kind |-> "str", str |-> u]

\* A step that takes a `uses` value of any kind for its printed form
useOfStepAnyKind(step, text, repoName, filePath) ==
    IF step.kind # "map" \/ step.uses.kind = "absent" THEN <<>>
    ELSE LET parsed == parseUsesString(step.uses.str, text)
         IN  IF parsed[1] # <<>>
                 THEN <<[Action |-> parsed[1], Version |-> parsed[2],
                         RepoName |-> repoName, FilePath |-> filePath]>>
                 ELSE <<>>

\* the body of the loop over steps, lines 1515-1534: the uses one step adds
useOfStep(step, text, repoName, filePath) ==
    IF step.kind # "map" THEN <<>>
    ELSE IF step.uses.kind = "absent" THEN <<>>
    ELSE IF step.uses.kind # "str" THEN <<>>
    ELSE LET parsed == parseUsesString(step.uses.str, text)
         IN  IF parsed[1] # <<>>
                 THEN <<[Action |-> parsed[1], Version |-> parsed[2],
                         RepoName |-> repoName, FilePath |-> filePath]>>
                 ELSE <<>>

\* the loop over steps, lines 1514-1535
RECURSIVE usesOfSteps(_, _, _, _)
usesOfSteps(steps, text, repoName, filePath) ==
    IF steps = <<>> THEN <<>>
    ELSE useOfStep(Head(steps), text, repoName, filePath)
            \o usesOfSteps(Tail(steps), text, repoName, filePath)

\* the loop over jobs, lines 1501-1536
RECURSIVE usesOfJobs(_, _, _, _)
usesOfJobs(jobs, text, repoName, filePath) ==
    IF jobs = <<>> THEN <<>>
    ELSE LET job == Head(jobs)
             rest == usesOfJobs(Tail(jobs), text, repoName, filePath)
         IN  IF job.kind # "map" THEN rest
             ELSE IF job.steps.kind # "seq" THEN rest
             ELSE usesOfSteps(job.steps.items, text, repoName, filePath) \o rest

extractActionUses(document, repoName, filePath) ==
    IF document.err THEN <<>>
    ELSE IF document.jobs.kind # "map" THEN <<>>
    ELSE usesOfJobs(document.jobs.items, document.text, repoName, filePath)

\* ---- decoded documents ----
\* a step with its source line
StepItem(node, line) == [node |-> node, line |-> line]

\* the step a line of UsesLines decodes to
StepOfLine(l) == StepItem([kind |-> "map", uses |-> StringValue(l.uses)], LineText(l))

StepItems ==
    { StepOfLine(Line(stepPre, xa \o <<"@">> \o v1, <<>>, TRUE)),                   \* - uses: x/a@v1
      StepOfLine(Line(stepPre, xa \o <<"@">> \o v1, <<" ", "#", " ", "p">>, TRUE)), \* - uses: x/a@v1 # p
      StepOfLine(Line(stepPre, xa, <<>>, TRUE)),                                     \* - uses: x/a
      StepOfLine(Line(stepPre \o <<"\"">>, <<"@">> \o v1, <<"\"">>, TRUE)),          \* - uses: "@v1"
      StepItem([kind |-> "map", uses |-> Absent],
               <<" ", " ", "-", " ", "r", "u", "n", ":", " ", "x">>),                \* - run: x
      StepItem([kind |-> "scalar", uses |-> Absent], <<" ", " ", "-", " ", "x">>),  \* - x
      StepItem([kind |-> "map", uses |-> [kind |-> "int", str |-> <<"1">>]],
               stepPre \o <<"1">>),                                                  \* - uses: 1
      StepItem([kind |-> "map", uses |-> [kind |-> "seq", str |-> xa \o <<"@">> \o v1]],
               stepPre \o <<"[">> \o xa \o <<"@">> \o v1 \o <<"]">>) }               \* - uses: [x/a@v1]

\* a job with its source lines
JobItem(kind, stepsKind, items, lines) ==
    [node |-> [kind |-> kind, steps |-> [kind |-> stepsKind, items |-> items]],
     lines |-> lines]

jobLine == <<" ", "j", ":">>
stepsLine == <<" ", " ", "s", "t", "e", "p", "s", ":">>

\* a job whose steps are the given step items
JobOfSteps(its) ==
    JobItem("map", "seq", [i \in 1..Len(its) |-> its[i].node],
            <<jobLine, stepsLine>> \o [i \in 1..Len(its) |-> its[i].line])

JobItems ==
    {JobOfSteps(its) : its \in SeqsUpTo(StepItems, MaxSteps)}
    \cup { JobItem("scalar", "absent", <<>>, <<jobLine \o <<" ", "1">>>>),           \* j: 1
           JobItem("map", "absent", <<>>, <<jobLine, <<" ", " ", "n", ":", " ", "x">>>>), \* no steps
           JobItem("map", "scalar", <<>>, <<jobLine, stepsLine \o <<" ", "x">>>>),  \* steps: x
           JobItem("map", "map", <<>>, <<jobLine, stepsLine \o <<" ", "{", "}">>>>) } \* steps: {}

\* the jobs that stand together in two-job documents
PairedJobs ==
    { JobItem("map", "absent", <<>>, <<jobLine, <<" ", " ", "n", ":", " ", "x">>>>),
      JobOfSteps(<<StepOfLine(Line(stepPre, xa \o <<"@">> \o v1, <<>>, TRUE))>>),
      JobOfSteps(<<StepItem([kind |-> "map", uses |-> [kind |-> "int", str |-> <<"1">>]],
                            stepPre \o <<"1">>),
                   StepOfLine(Line(stepPre, xa \o <<"@">> \o v1, <<" ", "#", " ", "p">>, TRUE))>>) }

jobsLine == <<"j", "o", "b", "s", ":">>

Document(text, err, kind, items) ==
    [text |-> text, err |-> err, jobs |-> [kind |-> kind, items |-> items]]

\* a document whose jobs mapping holds the given job items
DocumentOfJobs(js) ==
    Document(JoinLines(<<jobsLine>> \o LinesOf(js)), FALSE, "map",
             [i \in 1..Len(js) |-> js[i].node])

Documents ==
    {DocumentOfJobs(<<j>>) : j \in JobItems}
    \cup {DocumentOfJobs(<<j, k>>) : j \in PairedJobs, k \in PairedJobs}
    \cup { Document(<<"{">>, TRUE, "absent", <<>>),                       \* not YAML
           Document(<<"-", " ", "x">>, TRUE, "absent", <<>>),             \* a sequence, not a mapping
           Document(<<>>, FALSE, "absent", <<>>),                         \* an empty file
           Document(<<"o", "n", ":", " ", "p">>, FALSE, "absent", <<>>),  \* no jobs
           Document(jobsLine \o <<" ", "x">>, FALSE, "scalar", <<>>),     \* jobs: x
           Document(jobsLine \o <<" ", "[", "]">>, FALSE, "seq", <<>>),   \* jobs: []
           Document(jobsLine \o <<" ", "{", "}">>, FALSE, "map", <<>>) }  \* jobs: {}

\* the document a workflow file given as lines of UsesLines decodes to
RECURSIVE stepsOfLines(_)
stepsOfLines(d) ==
    IF d = <<>> THEN <<>>
    ELSE IF Head(d).step
        THEN <<[kind |-> "map", uses |-> StringValue(Head(d).uses)]>> \o stepsOfLines(Tail(d))
        ELSE stepsOfLines(Tail(d))

Decoded(d) ==
    Document(DocText(d), FALSE, "map",
             <<[kind |-> "map", steps |-> [kind |-> "seq", items |-> stepsOfLines(d)]]>>)

(***************************************************************************)
(* Inputs of the classifier: contents are built from these lines, joined   *)
(* by "\n".                                                                *)
(***************************************************************************)
teamA == <<"t", "e", "a", "m", "A">>
teamB == <<"t", "e", "a", "m", "B">>

CatLines ==
    { <<>>,                                        \* an empty line
      <<"v", ":", " ", "2">>,                      \* ordinary YAML
      prefix \o <<" ">> \o teamA,                  \* "# dotgithubindexer: teamA"
      <<" ", " ">> \o prefix \o teamB \o <<" ", "\r">>, \* indented, CRLF, teamB
      prefix,                                      \* marker with no payload
      prefix \o <<" ", "\t">>,                     \* marker with a blank payload
      <<"v", " ">> \o prefix \o <<" ">> \o teamA,  \* marker as a trailing comment
      prefix \o <<" ">> \o teamA \o <<"2">> }      \* "# dotgithubindexer: teamA2"

CatContents == {JoinLines(ls) : ls \in SeqsUpTo(CatLines, MaxLines)}

\* Values of the variables a specification does not exercise
TextIdle ==
    /\ content = <<>>
    /\ category = <<>>
    /\ doc = <<>>
    /\ uses = <<>>
    /\ scanned = 0

(***************************************************************************)
(* The file database.  <db>/workflows and <db>/dependabot are modelled as  *)
(* functions from a directory name to a directory; a directory is a        *)
(* function from file names to file bodies.                                *)
(***************************************************************************)
MaxRuns == 2         \* audits started in one behaviour
MaxFaults == 1       \* failures injected in one behaviour

indexName == <<"index", "yaml">>
readmeName == <<"README", "md">>

\* The repositories of the organization
Owners == {"alpha", "beta"}

\* Go's order on strings, for the names and digests the model uses
StringOrder == <<"0a", "1b", "2c", "3d", "4e", "alpha", "beta", "build", "ci", "gamma">>

Rank(x) == CHOOSE i \in 1..Len(StringOrder) : StringOrder[i] = x

\* sort.Strings, on a set of strings
RECURSIVE SortStrings(_)
SortStrings(S) ==
    IF S = {} THEN <<>>
    ELSE LET least == CHOOSE x \in S : \A y \in S : Rank(x) <= Rank(y)
         IN  <<least>> \o SortStrings(S \ {least})

\* The file contents the repositories hold
ciDoc1 == <<Line(stepPre, xa \o <<"@">> \o v1, <<" ", "#", " ", "p">>, TRUE)>>
ciDoc2 == <<Line(stepPre, xa \o <<"@">> \o v1, <<>>, TRUE),
            Line(stepPre, xa \o <<"@">> \o v1, <<>>, TRUE)>>
ciText1 == DocText(ciDoc1)
ciText2 == DocText(ciDoc2)
depText1 == <<"v", ":", " ", "2">>
depText2 == <<"v", ":", " ", "3">>
depText3 == prefix \o <<" ">> \o teamA \o <<"\n">> \o depText1

WorkflowNames == {<<"ci", "yml">>}
WorkflowContents == {ciText1, ciText2}
DependabotContents == {depText1, depText2, depText3}

\* computeHash: SHA-256 is modelled as an injection of the contents into digests
KnownContents == <<ciText1, ciText2, depText1, depText2, depText3>>
Digests == <<"0a", "1b", "2c", "3d", "4e">>

\* A digest that does not depend on the content
computeHashOfNothing(c) == Digests[1]

computeHash(c) == Digests[CHOOSE i \in 1..Len(KnownContents) : KnownContents[i] = c]

DigestSet == {Digests[i] : i \in 1..Len(Digests)}

\* filepath.Base of a path given as its sequence of elements
Base(path) == path[Len(path)]

\* ---- directories ----
EmptyDir == [n \in {} |-> <<>>]

\* os.MkdirAll(filepath.Join(dbPath, <collection>, key))
MkdirAll(tree, key) ==
    [k \in DOMAIN tree \cup {key} |-> IF k \in DOMAIN tree THEN tree[k] ELSE EmptyDir]

\* A write that puts the file into every directory of the collection
WriteFileUnderEveryKey(tree, key, name, body) ==
    [k \in DOMAIN tree |->
        [n \in DOMAIN tree[k] \cup {name} |-> IF n = name THEN body ELSE tree[k][n]]]

\* os.WriteFile of one file of directory key
WriteFile(tree, key, name, body) ==
    [tree EXCEPT ![key] =
        [n \in DOMAIN tree[key] \cup {name} |-> IF n = name THEN body ELSE tree[key][n]]]

\* os.Remove of a set of files of one directory
RemoveAll(dir, names) == [n \in DOMAIN dir \ names |-> dir[n]]

\* ---- repositories.yaml ----
\* the -org flag, a package-level variable
org == "org"

\* yaml.Marshal(&manifest) of a RepositoryManifest
MarshalManifest(repositories) ==
    IF repositories = <<>> THEN <<<<"organization:", org>>, <<"repositories:", "[]">>>>
    ELSE <<<<"organization:", org>>, <<"repositories:">>>>
            \o [i \in 1..Len(repositories) |-> <<"-", repositories[i]>>]

\* yaml.Unmarshal(data, &manifest): the Repositories list of a manifest body
UnmarshalManifest(body) ==
    IF Len(body) >= 2 /\ Len(body[2]) = 1
        THEN [i \in 1..(Len(body) - 2) |-> body[i + 2][2]]
        ELSE <<>>

\* A manifest written anew by every initializeDB
initialManifestAlways(body) == MarshalManifest(<<>>)

\* initializeDB's repositories.yaml: written only when the file does not exist
initialManifest(body) == IF body = <<>> THEN MarshalManifest(<<>>) ELSE body

\* A scan that never finds the repository
alreadyListedNever(listed, repoName) == FALSE

\* lines 1672-1676: the scan for the repository
alreadyListed(listed, repoName) == \E i \in 1..Len(listed) : listed[i] = repoName

\* sort.Strings on a list: one name put at its place in a sorted list
RECURSIVE insertString(_, _)
insertString(sorted, name) ==
    IF sorted = <<>> THEN <<name>>
    ELSE IF Rank(name) < Rank(Head(sorted)) THEN <<name>> \o sorted
    ELSE <<Head(sorted)>> \o insertString(Tail(sorted), name)

RECURSIVE sortStringList(_)
sortStringList(list) ==
    IF list = <<>> THEN <<>> ELSE insertString(sortStringList(Tail(list)), Head(list))

\* A repository appended and the list left as it is
appendRepositoryUnsorted(listed, repoName) == Append(listed, repoName)

\* lines 1677-1680: append, then sort.Strings
appendRepository(listed, repoName) == sortStringList(Append(listed, repoName))

\* updateRepositoriesManifest: fail names the call that fails ("none", "read",
\* "write"); a repository already listed returns before any write
addRepository(body, repoName, fail) ==
    IF fail = "read" \/ body = <<>> THEN [body |-> body, result |-> "err", wrote |-> {}]
    ELSE LET listed == UnmarshalManifest(body)
         IN  IF alreadyListed(listed, repoName)
                 THEN [body |-> body, result |-> "ok", wrote |-> {}]
             ELSE IF fail = "write" THEN [body |-> body, result |-> "err", wrote |-> {}]
             ELSE [body |-> MarshalManifest(appendRepository(listed, repoName)),
                   result |-> "ok", wrote |-> {<<"repositories", "yaml">>}]

\* ---- index.yaml ----
yamlHeader == <<"repositories:">>
yamlEmptyMap == <<<<"repositories:", "{}">>>>

\* yaml.Marshal(&index): the mapping with its keys in ascending order
Marshal(m) ==
    IF DOMAIN m = {} THEN yamlEmptyMap
    ELSE LET keys == SortStrings(DOMAIN m)
         IN  <<yamlHeader>> \o [i \in 1..Len(keys) |-> <<keys[i], m[keys[i]]>>]

\* yaml.Unmarshal(data, &index): err for an unparseable document; an empty
\* document parses and leaves index.Repositories nil
Unmarshal(body) ==
    IF body = <<>> THEN [err |-> FALSE, isNil |-> TRUE, m |-> <<>>]
    ELSE IF body = yamlEmptyMap THEN [err |-> FALSE, isNil |-> FALSE, m |-> <<>>]
    ELSE IF /\ body[1] = yamlHeader
            /\ Len(body) > 1
            /\ \A i \in 2..Len(body) : Len(body[i]) = 2
            /\ \A i, j \in 2..Len(body) : body[i][1] = body[j][1] => i = j
        THEN [err |-> FALSE, isNil |-> FALSE,
              m |-> [o \in {body[i][1] : i \in 2..Len(body)} |->
                        body[CHOOSE i \in 2..Len(body) : body[i][1] = o][2]]]
    ELSE [err |-> TRUE, isNil |-> TRUE, m |-> <<>>]

\* An index that starts from a new map although index.yaml exists
setEntryAlone(m, repoName, hash) == [o \in {repoName} |-> hash]

\* index.Repositories[repoName] = hash
setEntryKeepOld(m, repoName, hash) ==
    [o \in DOMAIN m \cup {repoName} |-> IF o \in DOMAIN m THEN m[o] ELSE hash]

setEntry(m, repoName, hash) ==
    [o \in DOMAIN m \cup {repoName} |-> IF o = repoName THEN hash ELSE m[o]]

\* sortedKeys / sortedRepositories: the map rebuilt from its sorted keys
sortedRepositories(m) ==
    LET sortedKeys == SortStrings(DOMAIN m)
    IN  [k \in {sortedKeys[i] : i \in 1..Len(sortedKeys)} |-> m[k]]

Outcome(tree, result, wrote) == [tree |-> tree, result |-> result, wrote |-> wrote]

\* The body shared by updateActionIndex and updateDependabotIndex.  fail names
\* the system call that fails: "none", "mkdir", "read" or "write".
upsertIndex(tree, key, repoName, hash, fail) ==
    IF fail = "mkdir" THEN Outcome(tree, "err", {})
    ELSE
      LET made == MkdirAll(tree, key)
          exists == indexName \in DOMAIN made[key]
          loaded == IF exists THEN Unmarshal(made[key][indexName])
                    ELSE [err |-> FALSE, isNil |-> FALSE, m |-> <<>>]
      IN  IF exists /\ (fail = "read" \/ loaded.err) THEN Outcome(made, "err", {})
          ELSE IF loaded.isNil THEN Outcome(made, "panic", {})
          ELSE IF fail = "write" THEN Outcome(made, "err", {})
          ELSE Outcome(WriteFile(made, key, indexName,
                                 Marshal(sortedRepositories(setEntry(loaded.m, repoName, hash)))),
                       "ok", {indexName})

\* the name of the blob file of a digest
blobName(hash) == <<hash>>

\* A store that writes without looking
storeVersionAlways(tree, key, hash, text, fail) ==
    IF fail # "none" THEN Outcome(tree, "err", {})
    ELSE Outcome(WriteFile(MkdirAll(tree, key), key, blobName(hash), <<text>>),
                 "ok", {blobName(hash)})

\* The body shared by storeActionVersion and storeDependabotVersion
storeVersion(tree, key, hash, text, fail) ==
    IF fail = "mkdir" THEN Outcome(tree, "err", {})
    ELSE
      LET made == MkdirAll(tree, key)
      IN  IF blobName(hash) \notin DOMAIN made[key]
              THEN IF fail = "write" THEN Outcome(made, "err", {})
                   ELSE Outcome(WriteFile(made, key, blobName(hash), <<text>>),
                                "ok", {blobName(hash)})
              ELSE Outcome(made, "ok", {})

\* ---- garbage collection ----
\* What garbage collection and the README generators read of a directory's
\* index: ok is FALSE when index.yaml cannot be read or cannot be parsed
loadIndexLenient(dir) ==
    IF indexName \notin DOMAIN dir THEN [ok |-> FALSE, m |-> <<>>]
    ELSE [ok |-> TRUE, m |-> Unmarshal(dir[indexName]).m]

loadIndex(dir) ==
    IF indexName \notin DOMAIN dir THEN [ok |-> FALSE, m |-> <<>>]
    ELSE LET loaded == Unmarshal(dir[indexName])
         IN  IF loaded.err THEN [ok |-> FALSE, m |-> <<>>]
             ELSE [ok |-> TRUE, m |-> loaded.m]

hashesInUse(m) == {m[o] : o \in DOMAIN m}

\* strings.TrimSuffix(file.Name(), filepath.Ext(file.Name()))
TrimExt(name) == IF Len(name) > 1 THEN SubSeq(name, 1, Len(name) - 1) ELSE name

\* garbageCollect's loop over the files of one directory: the names removed
unusedWorkflowFilesNoSkip(dir, inUse) ==
    {n \in DOMAIN dir : TrimExt(n) \notin {<<h>> : h \in inUse}}

unusedWorkflowFiles(dir, inUse) ==
    {n \in DOMAIN dir : n # indexName /\ TrimExt(n) \notin {<<h>> : h \in inUse}}

unusedDependabotFilesNone(dir, inUse) == {}

\* garbageCollectDependabot's loop over the files of one directory
unusedDependabotFiles(dir, inUse) ==
    {n \in DOMAIN dir : n # indexName /\ n \notin {<<h>> : h \in inUse}}

collectWorkflowDir(dir) ==
    IF loadIndex(dir).ok THEN unusedWorkflowFiles(dir, hashesInUse(loadIndex(dir).m)) ELSE {}

collectDependabotDir(dir) ==
    IF loadIndex(dir).ok THEN unusedDependabotFiles(dir, hashesInUse(loadIndex(dir).m)) ELSE {}

\* ---- README.md of a directory ----
RECURSIVE readmeSections(_, _)
readmeSections(hashes, m) ==
    IF hashes = <<>> THEN <<>>
    ELSE LET hash == Head(hashes)
             sorted == SortStrings({o \in DOMAIN m : m[o] = hash})
         IN  <<<<"##", hash>>>> \o [i \in 1..Len(sorted) |-> <<"-", sorted[i]>>]
                 \o readmeSections(Tail(hashes), m)

readmeBody(title, m) == <<title>> \o readmeSections(SortStrings(hashesInUse(m)), m)

\* the directories a README generator writes README.md into
readmeTargets(tree) == {k \in DOMAIN tree : loadIndex(tree[k]).ok}

writeReadmes(tree, titlePrefix) ==
    [k \in DOMAIN tree |->
        IF k \in readmeTargets(tree)
            THEN [n \in DOMAIN tree[k] \cup {readmeName} |->
                    IF n = readmeName
                        THEN readmeBody(titlePrefix \o k, loadIndex(tree[k]).m)
                        ELSE tree[k][n]]
            ELSE tree[k]]

\* ---- order of strings given as character sequences ----
\* the characters of the model's action names, versions and categories, in
\* byte order
CharOrder == <<" ", "#", "/", "0", "1", "2", "@", "A", "B", "D", "a", "b", "e",
               "f", "l", "m", "o", "p", "t", "u", "v", "x", "y">>

CharRank(c) == CHOOSE i \in 1..Len(CharOrder) : CharOrder[i] = c

\* Go's s < t on strings
StringLess(s, t) ==
    \E i \in 1..Len(t) :
        /\ \A j \in 1..(i - 1) : j <= Len(s) /\ s[j] = t[j]
        /\ (i > Len(s) \/ CharRank(s[i]) < CharRank(t[i]))

\* sort.Strings, on a set of character sequences
RECURSIVE SortCharStrings(_)
SortCharStrings(S) ==
    IF S = {} THEN <<>>
    ELSE LET least == CHOOSE x \in S : \A y \in S \ {x} : StringLess(x, y)
         IN  <<least>> \o SortCharStrings(S \ {least})

\* file names (sequences of dot-separated components) in name order; the
\* model's file names differ in their first component
RECURSIVE SortNames(_)
SortNames(S) ==
    IF S = {} THEN <<>>
    ELSE LET least == CHOOSE x \in S : \A y \in S : Rank(x[1]) <= Rank(y[1])
         IN  <<least>> \o SortNames(S \ {least})

\* ---- <db>/README.md ----
\* A summary row that counts the entries for both numbers
summaryRowNoDistinct(name, m) ==
    [Name |-> name, UniqueVersions |-> Cardinality(DOMAIN m),
     TotalUses |-> Cardinality(DOMAIN m)]

\* lines 2296-2308: the WorkflowSummary of one index
summaryRow(name, m) ==
    [Name |-> name, UniqueVersions |-> Cardinality(hashesInUse(m)),
     TotalUses |-> Cardinality(DOMAIN m)]

\* the summaries of the directories whose index loads, in the given key order
summaryRows(tree, keys) ==
    LET loaded == SelectSeq(keys, LAMBDA k : loadIndex(tree[k]).ok)
    IN  [i \in 1..Len(loaded) |-> summaryRow(loaded[i], loadIndex(tree[loaded[i]]).m)]

\* generateDBSummary's content: the workflow table and the dependabot table
summaryBody(wfTree, depTree) ==
    [workflows |-> summaryRows(wfTree, SortNames(DOMAIN wfTree)),
     dependabot |-> summaryRows(depTree, SortCharStrings(DOMAIN depTree))]

\* ---- the usage index and <db>/USES.md ----
EmptyIndex == [a \in {} |-> <<>>]

\* lines 2043-2053: one use added to usesIndex.Actions
addUse(index, use) ==
    LET versions == IF use.Action \in DOMAIN index THEN index[use.Action] ELSE EmptyIndex
        refs == IF use.Version \in DOMAIN versions THEN versions[use.Version] ELSE <<>>
        added == Append(refs, [RepoName |-> use.RepoName, FilePath |-> use.FilePath])
    IN  [a \in DOMAIN index \cup {use.Action} |->
            IF a = use.Action
                THEN [v \in DOMAIN versions \cup {use.Version} |->
                        IF v = use.Version THEN added ELSE versions[v]]
                ELSE index[a]]

\* the loop of lines 2042-2054
RECURSIVE addUses(_, _)
addUses(index, found) ==
    IF found = <<>> THEN index ELSE addUses(addUse(index, Head(found)), Tail(found))

\* the less function of lines 2467-2472
refLess(a, b) ==
    IF a.RepoName = b.RepoName
        THEN Rank(Base(a.FilePath)[1]) < Rank(Base(b.FilePath)[1])
        ELSE Rank(a.RepoName) < Rank(b.RepoName)

\* one reference put at its place in a sorted list
RECURSIVE insertRef(_, _)
insertRef(sorted, r) ==
    IF sorted = <<>> THEN <<r>>
    ELSE IF refLess(r, Head(sorted)) THEN <<r>> \o sorted
    ELSE <<Head(sorted)>> \o insertRef(Tail(sorted), r)

\* References left in the order they were appended
sortRefsNot(refs) == refs

\* sort.Slice(refs, less), lines 2467-2472
RECURSIVE sortRefs(_)
sortRefs(refs) ==
    IF refs = <<>> THEN <<>> ELSE insertRef(sortRefs(Tail(refs)), Head(refs))

\* versionDisplay, lines 2477-2480
noVersion == <<"(", "n", "o", " ", "v", "e", "r", "s", "i", "o", "n", " ",
               "s", "p", "e", "c", "i", "f", "i", "e", "d", ")">>
versionDisplay(version) == IF version = <<>> THEN noVersion ELSE version

RECURSIVE sumLens(_, _)
sumLens(versions, keys) ==
    IF keys = <<>> THEN 0 ELSE Len(versions[Head(keys)]) + sumLens(versions, Tail(keys))

\* lines 2463-2499: the sections of one action's versions
usesVersionSections(versions, versionKeys) ==
    [i \in 1..Len(versionKeys) |->
        [version |-> versionDisplay(versionKeys[i]),
         usageCount |-> Len(versions[versionKeys[i]]),
         refs |-> sortRefs(versions[versionKeys[i]])]]

\* lines 2435-2502: the content of USES.md, one section per action
usesBody(index) ==
    LET actionNames == SortCharStrings(DOMAIN index)
    IN  [i \in 1..Len(actionNames) |->
            LET versions == index[actionNames[i]]
                versionKeys == SortCharStrings(DOMAIN versions)
            IN  [action |-> actionNames[i],
                 totalUsage |-> sumLens(versions, versionKeys),
                 versionCount |-> Len(versionKeys),
                 versions |-> usesVersionSections(versions, versionKeys)]]

(***************************************************************************)
(* auditGitHubActions (src/main.go:1984-2113), one action per call.        *)
(***************************************************************************)
NoCall == [fn |-> "", key |-> <<>>, owner |-> "", hash |-> "", result |-> "",
           wrote |-> {}, removed |-> {}]

Called(fn, key, owner, hash, result, wrote, removed) ==
    [fn |-> fn, key |-> key, owner |-> owner, hash |-> hash, result |-> result,
     wrote |-> wrote, removed |-> removed]

\* fetchRepositories: the repositories the API lists for the run
RepoLists == {SortStrings(S) : S \in SUBSET Owners}

WorkflowNameList == <<<<"ci", "yml">>>>

workflowsDirPath == <<<<"", "github">>, <<"workflows">>>>

\* ---- the organization as the GitHub API serves it ----
\* While remote is not pinned every fetch may return anything; a pinned remote
\* holds the repositories and the files every run is served.
Unpinned == [pinned |-> FALSE, repos |-> <<>>, held |-> <<>>, dep |-> <<>>]

Remotes ==
    UNION {{[pinned |-> TRUE, repos |-> rs, held |-> h, dep |-> d] :
                h \in [{rs[i] : i \in 1..Len(rs)} ->
                            [WorkflowNames -> WorkflowContents \cup {<<>>}]],
                d \in [{rs[i] : i \in 1..Len(rs)} -> DependabotContents \cup {<<>>}]} :
           rs \in RepoLists}

\* what fetchRepositories, fetchWorkflowFiles and fetchDependabotFile may return
servedRepos == IF remote.pinned THEN {remote.repos} ELSE RepoLists

servedWorkflows(repo) ==
    IF remote.pinned THEN {remote.held[repo]}
    ELSE [WorkflowNames -> WorkflowContents \cup {<<>>}]

servedDependabot(repo) ==
    IF remote.pinned THEN {remote.dep[repo]} ELSE DependabotContents \cup {<<>>}

\* fetchWorkflowFiles' loop: a WorkflowFile for every file with content
RECURSIVE workflowFiles(_, _, _)
workflowFiles(repo, names, held) ==
    IF names = <<>> THEN <<>>
    ELSE LET rest == workflowFiles(repo, Tail(names), held)
             text == held[Head(names)]
         IN  IF text = <<>> THEN rest
             ELSE <<[RepoName |-> repo, FilePath |-> Append(workflowsDirPath, Head(names)),
                     Content |-> text, Hash |-> computeHash(text)]>> \o rest

\* yaml.Unmarshal of a workflow file's content (line 1488)
workflowDocument(text) == Decoded(CHOOSE d \in {ciDoc1, ciDoc2} : DocText(d) = text)

AfterRepo(i) == IF i > Len(repos) THEN "gc" ELSE "repo"
AfterWorkflow(j) == IF j > Len(wfs) THEN "dep_fetch" ELSE "wf_index"

\* ---- the start of the run, lines 1984-2001 ----
\* A run that goes on after initializeDB failed
afterInitIgnoreError(fail, rs) ==
    IF fail = "fetch" THEN [pc |-> "idle", repos |-> <<>>, returned |-> "err"]
    ELSE [pc |-> IF rs = <<>> THEN "gc" ELSE "repo", repos |-> rs, returned |-> ""]

\* fail names the call that failed, "none" if none did
afterInit(fail, rs) ==
    IF fail # "none" THEN [pc |-> "idle", repos |-> <<>>, returned |-> "err"]
    ELSE [pc |-> IF rs = <<>> THEN "gc" ELSE "repo", repos |-> rs, returned |-> ""]

\* ---- post-processing, lines 2082-2112 ----
StageOrder == <<"gc", "gc_dep", "readme", "dep_readme", "summary", "uses_md">>

StageAt(stage) == CHOOSE i \in 1..Len(StageOrder) : StageOrder[i] = stage

\* A run that returns the error of a failed stage
afterStageAbort(stage, result) ==
    IF result = "err" THEN [pc |-> "idle", returned |-> "err"]
    ELSE IF StageAt(stage) = Len(StageOrder) THEN [pc |-> "idle", returned |-> "nil"]
    ELSE [pc |-> StageOrder[StageAt(stage) + 1], returned |-> ""]

\* the error of a stage is printed; the next stage follows, return nil the last
afterStage(stage, result) ==
    IF StageAt(stage) = Len(StageOrder) THEN [pc |-> "idle", returned |-> "nil"]
    ELSE [pc |-> StageOrder[StageAt(stage) + 1], returned |-> ""]

DbIdle ==
    /\ manifest = <<>>
    /\ workflows = <<>>
    /\ dependabot = <<>>
    /\ summary = <<>>
    /\ usesMd = <<>>

RunIdle ==
    /\ pc = "idle"
    /\ runs = 0
    /\ repos = <<>>
    /\ repoIdx = 0
    /\ wfs = <<>>
    /\ wfIdx = 0
    /\ dependabotFile = <<>>
    /\ call = NoCall
    /\ faults = 0
    /\ remote = Unpinned
    /\ usesIndex = EmptyIndex
    /\ attempted = <<>>
    /\ returned = ""

\* The failures an action may still inject
MayFail == IF faults < MaxFaults THEN BOOLEAN ELSE {FALSE}
MayFailAt(calls) == IF faults < MaxFaults THEN {"none"} \cup calls ELSE {"none"}

Init == TextIdle /\ DbIdle /\ RunIdle

\* initializeDB and fetchRepositories, lines 1984-2001.  fail names the call
\* that fails: "mkdir", "write" and "subdir" are initializeDB's
\* os.MkdirAll(dbPath), os.WriteFile(reposManifestPath) and os.MkdirAll of a
\* collection directory (after the manifest is written), "fetch" is
\* fetchRepositories.  Each of the three is called only for what os.Stat does
\* not find: the first two while there is no manifest, the third while a
\* collection has no directory.
BeginAudit ==
    /\ pc \in {"idle", "crashed"}
    /\ runs < MaxRuns
    /\ runs' = runs + 1
    /\ \E fail \in MayFailAt({"mkdir", "write", "subdir", "fetch"}), rs \in servedRepos :
        LET next == afterInit(fail, rs)
        IN  /\ fail \in {"mkdir", "write"} => manifest = <<>>
            /\ fail = "subdir" => (workflows = <<>> \/ dependabot = <<>>)
            /\ manifest' = IF fail \in {"mkdir", "write"} THEN manifest
                           ELSE initialManifest(manifest)
            /\ repos' = next.repos
            /\ pc' = next.pc
            /\ returned' = next.returned
            /\ faults' = IF fail # "none" THEN faults + 1 ELSE faults
            /\ call' = Called(IF fail = "fetch" THEN "fetchRepositories" ELSE "initializeDB",
                              <<>>, "", "", IF fail # "none" THEN "err" ELSE "ok", {}, {})
    /\ repoIdx' = 1
    /\ wfs' = <<>>
    /\ wfIdx' = 0
    /\ dependabotFile' = <<>>
    /\ usesIndex' = EmptyIndex
    /\ attempted' = <<>>
    /\ UNCHANGED <<textVars, workflows, dependabot, summary, usesMd, remote>>

\* updateRepositoriesManifest (1658-1693), called at lines 2007-2011: an error
\* skips the repository
updateRepositoriesManifest ==
    /\ pc = "repo"
    /\ \E fail \in MayFailAt({"read", "write"}) :
        LET out == addRepository(manifest, repos[repoIdx], fail)
        IN  /\ manifest' = out.body
            /\ faults' = IF fail = "none" THEN faults ELSE faults + 1
            /\ call' = Called("updateRepositoriesManifest", <<>>, repos[repoIdx], "",
                              out.result, out.wrote, {})
            /\ repoIdx' = IF out.result = "ok" THEN repoIdx ELSE repoIdx + 1
            /\ pc' = IF out.result = "ok" THEN "fetch" ELSE AfterRepo(repoIdx + 1)
    /\ UNCHANGED <<textVars, workflows, dependabot, summary, usesMd, runs, repos, wfs,
                   wfIdx, dependabotFile, remote, usesIndex, attempted, returned>>

\* lines 2013-2023
fetchWorkflowFiles ==
    /\ pc = "fetch"
    /\ \E failed \in MayFail, held \in servedWorkflows(repos[repoIdx]) :
        LET fetched == workflowFiles(repos[repoIdx], WorkflowNameList, held)
        IN  /\ faults' = IF failed THEN faults + 1 ELSE faults
            /\ IF failed \/ fetched = <<>>
                THEN /\ wfs' = <<>>
                     /\ wfIdx' = 0
                     /\ repoIdx' = repoIdx + 1
                     /\ pc' = AfterRepo(repoIdx + 1)
                ELSE /\ wfs' = fetched
                     /\ wfIdx' = 1
                     /\ repoIdx' = repoIdx
                     /\ pc' = "wf_index"
    /\ UNCHANGED <<textVars, dbVars, runs, repos, dependabotFile, call, remote, usesIndex,
                   attempted, returned>>

\* lines 2026-2032
updateActionIndex ==
    /\ pc = "wf_index"
    /\ \E fail \in MayFailAt({"mkdir", "read", "write"}) :
        LET wf == wfs[wfIdx]
            actionName == Base(wf.FilePath)
            out == upsertIndex(workflows, actionName, wf.RepoName, wf.Hash, fail)
        IN  /\ workflows' = out.tree
            /\ faults' = IF fail = "none" THEN faults ELSE faults + 1
            /\ call' = Called("updateActionIndex", actionName, wf.RepoName, wf.Hash,
                              out.result, {<<actionName, n>> : n \in out.wrote}, {})
            /\ pc' = IF out.result = "ok" THEN "wf_store"
                     ELSE IF out.result = "panic" THEN "crashed"
                     ELSE AfterWorkflow(wfIdx + 1)
            /\ returned' = IF out.result = "panic" THEN "panic" ELSE returned
            /\ wfIdx' = IF out.result = "err" THEN wfIdx + 1 ELSE wfIdx
    /\ UNCHANGED <<textVars, manifest, dependabot, summary, usesMd, runs, repos, repoIdx,
                   wfs, dependabotFile, remote, usesIndex, attempted>>

\* lines 2034-2054: the version is stored and, if that worked, the uses of the
\* workflow are added to usesIndex
storeActionVersion ==
    /\ pc = "wf_store"
    /\ \E fail \in MayFailAt({"mkdir", "write"}) :
        LET wf == wfs[wfIdx]
            actionName == Base(wf.FilePath)
            out == storeVersion(workflows, actionName, wf.Hash, wf.Content, fail)
        IN  /\ workflows' = out.tree
            /\ faults' = IF fail = "none" THEN faults ELSE faults + 1
            /\ call' = Called("storeActionVersion", actionName, wf.RepoName, wf.Hash,
                              out.result, {<<actionName, n>> : n \in out.wrote}, {})
            /\ usesIndex' =
                IF out.result = "ok"
                    THEN addUses(usesIndex,
                                 extractActionUses(workflowDocument(wf.Content),
                                                   wf.RepoName, wf.FilePath))
                    ELSE usesIndex
    /\ wfIdx' = wfIdx + 1
    /\ pc' = AfterWorkflow(wfIdx + 1)
    /\ UNCHANGED <<textVars, manifest, dependabot, summary, usesMd, runs, repos, repoIdx,
                   wfs, dependabotFile, remote, attempted, returned>>

\* lines 2057-2062, with fetchDependabotFile's hash and category (1455-1456)
fetchDependabotFile ==
    /\ pc = "dep_fetch"
    /\ \E failed \in MayFail, text \in servedDependabot(repos[repoIdx]) :
        /\ faults' = IF failed THEN faults + 1 ELSE faults
        /\ IF failed \/ text = <<>>
            THEN /\ dependabotFile' = <<>>
                 /\ pc' = "rate"
            ELSE /\ dependabotFile' = <<[RepoName |-> repos[repoIdx], Content |-> text,
                                         Hash |-> computeHash(text),
                                         Category |-> extractCategory(text)]>>
                 /\ pc' = "dep_index"
    /\ UNCHANGED <<textVars, dbVars, runs, repos, repoIdx, wfs, wfIdx, call, remote,
                   usesIndex, attempted, returned>>

\* lines 2065-2068: an error is printed and the run goes on to the store
updateDependabotIndex ==
    /\ pc = "dep_index"
    /\ \E fail \in MayFailAt({"mkdir", "read", "write"}) :
        LET f == dependabotFile[1]
            out == upsertIndex(dependabot, f.Category, f.RepoName, f.Hash, fail)
        IN  /\ dependabot' = out.tree
            /\ faults' = IF fail = "none" THEN faults ELSE faults + 1
            /\ call' = Called("updateDependabotIndex", f.Category, f.RepoName, f.Hash,
                              out.result, {<<f.Category, n>> : n \in out.wrote}, {})
            /\ pc' = IF out.result = "panic" THEN "crashed" ELSE "dep_store"
            /\ returned' = IF out.result = "panic" THEN "panic" ELSE returned
    /\ UNCHANGED <<textVars, manifest, workflows, summary, usesMd, runs, repos, repoIdx,
                   wfs, wfIdx, dependabotFile, remote, usesIndex, attempted>>

\* lines 2070-2073
storeDependabotVersion ==
    /\ pc = "dep_store"
    /\ \E fail \in MayFailAt({"mkdir", "write"}) :
        LET f == dependabotFile[1]
            out == storeVersion(dependabot, f.Category, f.Hash, f.Content, fail)
        IN  /\ dependabot' = out.tree
            /\ faults' = IF fail = "none" THEN faults ELSE faults + 1
            /\ call' = Called("storeDependabotVersion", f.Category, f.RepoName, f.Hash,
                              out.result, {<<f.Category, n>> : n \in out.wrote}, {})
    /\ pc' = "rate"
    /\ UNCHANGED <<textVars, manifest, workflows, summary, usesMd, runs, repos, repoIdx,
                   wfs, wfIdx, dependabotFile, remote, usesIndex, attempted, returned>>

\* lines 2076-2079: a failed rate-limit check ends the audit with an error
checkRateLimit ==
    /\ pc = "rate"
    /\ \E failed \in MayFail :
        /\ faults' = IF failed THEN faults + 1 ELSE faults
        /\ pc' = IF failed THEN "idle" ELSE AfterRepo(repoIdx + 1)
        /\ returned' = IF failed THEN "err" ELSE returned
        /\ call' = Called("checkRateLimit", <<>>, "", "", IF failed THEN "err" ELSE "ok", {}, {})
    /\ repoIdx' = repoIdx + 1
    /\ wfs' = <<>>
    /\ wfIdx' = 0
    /\ dependabotFile' = <<>>
    /\ UNCHANGED <<textVars, dbVars, runs, repos, remote, usesIndex, attempted>>

\* garbageCollect (1838-1895), called at line 2083; failed: os.ReadDir fails
garbageCollect ==
    /\ pc = "gc"
    /\ \E failed \in MayFail :
        LET result == IF failed THEN "err" ELSE "ok"
            next == afterStage("gc", result)
        IN  /\ IF failed
                THEN /\ faults' = faults + 1
                     /\ workflows' = workflows
                     /\ call' = Called("garbageCollect", <<>>, "", "", "err", {}, {})
                ELSE /\ faults' = faults
                     /\ workflows' = [k \in DOMAIN workflows |->
                                        RemoveAll(workflows[k], collectWorkflowDir(workflows[k]))]
                     /\ call' = Called("garbageCollect", <<>>, "", "", "ok", {},
                                       UNION {{<<k, n>> : n \in collectWorkflowDir(workflows[k])} :
                                                k \in DOMAIN workflows})
            /\ attempted' = Append(attempted, <<"gc", result>>)
            /\ pc' = next.pc
            /\ returned' = next.returned
    /\ UNCHANGED <<textVars, manifest, dependabot, summary, usesMd, runs, repos, repoIdx,
                   wfs, wfIdx, dependabotFile, remote, usesIndex>>

\* garbageCollectDependabot (1898-1955), called at line 2088
garbageCollectDependabot ==
    /\ pc = "gc_dep"
    /\ \E failed \in MayFail :
        LET result == IF failed THEN "err" ELSE "ok"
            next == afterStage("gc_dep", result)
        IN  /\ IF failed
                THEN /\ faults' = faults + 1
                     /\ dependabot' = dependabot
                     /\ call' = Called("garbageCollectDependabot", <<>>, "", "", "err", {}, {})
                ELSE /\ faults' = faults
                     /\ dependabot' = [k \in DOMAIN dependabot |->
                                        RemoveAll(dependabot[k], collectDependabotDir(dependabot[k]))]
                     /\ call' = Called("garbageCollectDependabot", <<>>, "", "", "ok", {},
                                       UNION {{<<k, n>> : n \in collectDependabotDir(dependabot[k])} :
                                                k \in DOMAIN dependabot})
            /\ attempted' = Append(attempted, <<"gc_dep", result>>)
            /\ pc' = next.pc
            /\ returned' = next.returned
    /\ UNCHANGED <<textVars, manifest, workflows, summary, usesMd, runs, repos, repoIdx,
                   wfs, wfIdx, dependabotFile, remote, usesIndex>>

\* generateReadmeFiles (2116-2181), called at line 2093
generateReadmeFiles ==
    /\ pc = "readme"
    /\ \E failed \in MayFail :
        LET result == IF failed THEN "err" ELSE "ok"
            next == afterStage("readme", result)
        IN  /\ IF failed
                THEN /\ faults' = faults + 1
                     /\ workflows' = workflows
                     /\ call' = Called("generateReadmeFiles", <<>>, "", "", "err", {}, {})
                ELSE /\ faults' = faults
                     /\ workflows' = writeReadmes(workflows, <<"#">>)
                     /\ call' = Called("generateReadmeFiles", <<>>, "", "", "ok",
                                       {<<k, readmeName>> : k \in readmeTargets(workflows)}, {})
            /\ attempted' = Append(attempted, <<"readme", result>>)
            /\ pc' = next.pc
            /\ returned' = next.returned
    /\ UNCHANGED <<textVars, manifest, dependabot, summary, usesMd, runs, repos, repoIdx,
                   wfs, wfIdx, dependabotFile, remote, usesIndex>>

\* generateDependabotReadmeFiles (2185-2255), called at line 2098
generateDependabotReadmeFiles ==
    /\ pc = "dep_readme"
    /\ \E failed \in MayFail :
        LET result == IF failed THEN "err" ELSE "ok"
            next == afterStage("dep_readme", result)
        IN  /\ IF failed
                THEN /\ faults' = faults + 1
                     /\ dependabot' = dependabot
                     /\ call' = Called("generateDependabotReadmeFiles", <<>>, "", "", "err", {}, {})
                ELSE /\ faults' = faults
                     /\ dependabot' = writeReadmes(dependabot, <<"#", "Dependabot", "-">>)
                     /\ call' = Called("generateDependabotReadmeFiles", <<>>, "", "", "ok",
                                       {<<k, readmeName>> : k \in readmeTargets(dependabot)}, {})
            /\ attempted' = Append(attempted, <<"dep_readme", result>>)
            /\ pc' = next.pc
            /\ returned' = next.returned
    /\ UNCHANGED <<textVars, manifest, workflows, summary, usesMd, runs, repos, repoIdx,
                   wfs, wfIdx, dependabotFile, remote, usesIndex>>

\* generateDBSummary (2258-2418), called at line 2103; failed: os.ReadDir of
\* <db>/workflows or the os.WriteFile of <db>/README.md fails
generateDBSummary ==
    /\ pc = "summary"
    /\ \E failed \in MayFail :
        LET result == IF failed THEN "err" ELSE "ok"
            next == afterStage("summary", result)
        IN  /\ faults' = IF failed THEN faults + 1 ELSE faults
            /\ summary' = IF failed THEN summary ELSE <<summaryBody(workflows, dependabot)>>
            /\ call' = Called("generateDBSummary", <<>>, "", "", result, {}, {})
            /\ attempted' = Append(attempted, <<"summary", result>>)
            /\ pc' = next.pc
            /\ returned' = next.returned
    /\ UNCHANGED <<textVars, manifest, workflows, dependabot, usesMd, runs, repos, repoIdx,
                   wfs, wfIdx, dependabotFile, remote, usesIndex>>

\* generateUSESMarkdown (2421-2515), called at line 2108: nothing is written
\* for an empty usesIndex; failed: the os.WriteFile of <db>/USES.md fails
generateUSESMarkdown ==
    /\ pc = "uses_md"
    /\ \E failed \in (IF DOMAIN usesIndex = {} THEN {FALSE} ELSE MayFail) :
        LET result == IF failed THEN "err" ELSE "ok"
            next == afterStage("uses_md", result)
        IN  /\ faults' = IF failed THEN faults + 1 ELSE faults
            /\ usesMd' = IF failed \/ DOMAIN usesIndex = {} THEN usesMd
                         ELSE <<usesBody(usesIndex)>>
            /\ call' = Called("generateUSESMarkdown", <<>>, "", "", result, {}, {})
            /\ attempted' = Append(attempted, <<"uses_md", result>>)
            /\ pc' = next.pc
            /\ returned' = next.returned
    /\ UNCHANGED <<textVars, manifest, workflows, dependabot, summary, runs, repos, repoIdx,
                   wfs, wfIdx, dependabotFile, remote, usesIndex>>

\* Between two audits an index.yaml is damaged from outside: overwritten with
\* text that is no YAML mapping, truncated to an empty file, or deleted.  These
\* are the states the error branches at lines 1705-1713 and 1855-1864 handle.
garbageBody == <<<<"{">>>>

damaged(dir, how) ==
    IF how = "deleted" THEN RemoveAll(dir, {indexName})
    ELSE [n \in DOMAIN dir |->
            IF n = indexName THEN (IF how = "garbage" THEN garbageBody ELSE <<>>)
            ELSE dir[n]]

DamageIndex ==
    /\ pc = "idle"
    /\ runs < MaxRuns
    /\ faults < MaxFaults
    /\ faults' = faults + 1
    /\ \E how \in {"garbage", "truncated", "deleted"} :
        \/ \E k \in DOMAIN workflows :
            /\ indexName \in DOMAIN workflows[k]
            /\ workflows' = [workflows EXCEPT ![k] = damaged(workflows[k], how)]
            /\ dependabot' = dependabot
        \/ \E k \in DOMAIN dependabot :
            /\ indexName \in DOMAIN dependabot[k]
            /\ dependabot' = [dependabot EXCEPT ![k] = damaged(dependabot[k], how)]
            /\ workflows' = workflows
    /\ call' = NoCall
    /\ UNCHANGED <<textVars, manifest, summary, usesMd, pc, runs, repos, repoIdx, wfs,
                   wfIdx, dependabotFile, remote, usesIndex, attempted, returned>>

Next ==
    \/ BeginAudit
    \/ updateRepositoriesManifest
    \/ fetchWorkflowFiles
    \/ updateActionIndex
    \/ storeActionVersion
    \/ fetchDependabotFile
    \/ updateDependabotIndex
    \/ storeDependabotVersion
    \/ checkRateLimit
    \/ garbageCollect
    \/ garbageCollectDependabot
    \/ generateReadmeFiles
    \/ generateDependabotReadmeFiles
    \/ generateDBSummary
    \/ generateUSESMarkdown
    \/ DamageIndex

Spec == Init /\ [][Next]_vars

(***************************************************************************)
(* Properties of the file database, over the steps of Spec.                *)
(***************************************************************************)
\* the files of a directory that are neither its index nor its README
Blobs(dir) == {n \in DOMAIN dir : n # indexName /\ n # readmeName}

\* the entries of an index body as written by yaml.Marshal: <<owner, digest>> lines
Entries(body) == {body[i] : i \in {j \in 2..Len(body) : Len(body[j]) = 2}}

\* the directory's index.yaml is there and is a YAML document
Parseable(dir) == indexName \in DOMAIN dir /\ dir[indexName] # garbageBody

\* the digests the directory's index refers to
Referenced(dir) == {e[2] : e \in Entries(dir[indexName])}

\* the step is a call of a store / of an index update / of a collection
IsPut == pc \in {"wf_store", "dep_store"} /\ pc' # pc
IsUpsert == pc \in {"wf_index", "dep_index"} /\ pc' # pc
IsCollection == pc \in {"gc", "gc_dep"} /\ pc' # pc

\* the collection the step works on, before and after it
Before == IF pc \in {"wf_index", "wf_store", "gc"} THEN workflows ELSE dependabot
After == IF pc \in {"wf_index", "wf_store", "gc"} THEN workflows' ELSE dependabot'

\* C1: a put is insert-if-absent: when the key directory already holds a blob
\* named by the digest, the put writes nothing and the database is unchanged;
\* no put changes the content of a blob that existed before it.
C1_PutInsertIfAbsent ==
    [][IsPut =>
        /\ (/\ call'.key \in DOMAIN Before
            /\ blobName(call'.hash) \in DOMAIN Before[call'.key])
           => (call'.wrote = {} /\ After = Before)
        /\ \A k \in DOMAIN Before : \A n \in Blobs(Before[k]) :
            /\ k \in DOMAIN After
            /\ n \in DOMAIN After[k]
            /\ After[k][n] = Before[k][n]
        /\ call'.wrote \subseteq {<<call'.key, blobName(call'.hash)>>}]_vars

\* A put of content whose blob another repository stored before: nothing written
C1_Witness ==
    /\ call.fn = "storeActionVersion"
    /\ call.result = "ok"
    /\ call.wrote = {}
    /\ call.owner = "beta"
    /\ blobName(call.hash) \in DOMAIN workflows[call.key]
    /\ <<"alpha", call.hash>> \in Entries(workflows[call.key][indexName])

\* C2: after an index update that returns without error, the persisted index
\* maps the owner to exactly the digest given, whether index.yaml was absent or
\* present before; the same update made again leaves the persisted index as it is.
C2_UpsertMapsOwner ==
    [][(IsUpsert /\ call'.result = "ok") =>
        LET k == call'.key
            body == After[k][indexName]
        IN  /\ <<call'.owner, call'.hash>> \in Entries(body)
            /\ \A e \in Entries(body) : e[1] = call'.owner => e[2] = call'.hash
            /\ Cardinality(Entries(body)) = Len(body) - 1
            /\ \A o \in Owners \ {call'.owner} : \A h \in DigestSet :
                (k \in DOMAIN Before /\ indexName \in DOMAIN Before[k])
                    => (<<o, h>> \in Entries(body) <=> <<o, h>> \in Entries(Before[k][indexName]))
            /\ upsertIndex(After, k, call'.owner, call'.hash, "none").result = "ok"
            /\ upsertIndex(After, k, call'.owner, call'.hash, "none").tree = After]_vars

\* An update that moves a repository to a new digest in an index that already
\* lists both repositories; the blob of the new digest is not stored yet
C2_Witness ==
    /\ pc = "wf_store"
    /\ call.fn = "updateActionIndex"
    /\ call.result = "ok"
    /\ runs = 2
    /\ {e[1] : e \in Entries(workflows[call.key][indexName])} = Owners
    /\ blobName(call.hash) \notin DOMAIN workflows[call.key]
    /\ Blobs(workflows[call.key]) # {}

\* C3: in every key directory with a parseable index, garbage collection
\* deletes exactly the blobs whose digest the index does not refer to, and no
\* other file of the directory (in particular not a generated README.md).
C3_CollectsExactlyUnreferenced ==
    [][(IsCollection /\ call'.result = "ok") =>
        \A k \in DOMAIN Before :
            Parseable(Before[k]) =>
                DOMAIN Before[k] \ DOMAIN After[k] =
                    {n \in Blobs(Before[k]) : n \notin {blobName(h) : h \in Referenced(Before[k])}}]_vars

\* C4: garbage collection leaves every key directory whose index.yaml is
\* missing or unparseable exactly as it was, and still collects the other
\* directories: no blob unreferenced by a parseable index survives it.
C4_UnloadableUntouched ==
    [][IsCollection =>
        /\ DOMAIN After = DOMAIN Before
        /\ \A k \in DOMAIN Before :
            IF Parseable(Before[k])
                THEN call'.result = "ok" =>
                        \A n \in Blobs(After[k]) : n \in {blobName(h) : h \in Referenced(Before[k])}
                ELSE After[k] = Before[k]]_vars

\* A collection that removes a blob of one category while the blobs of another
\* category, whose index is missing or unparseable, stay
C4_Witness ==
    /\ call.fn = "garbageCollectDependabot"
    /\ call.result = "ok"
    /\ \E k \in DOMAIN dependabot :
        /\ ~Parseable(dependabot[k])
        /\ Blobs(dependabot[k]) # {}
        /\ \E j \in DOMAIN dependabot \ {k} : \E h \in DigestSet :
            <<j, blobName(h)>> \in call.removed

\* C5: garbage collection never deletes an index file: an index.yaml that
\* existed before it exists afterwards, with the same content.
C5_IndexSurvives ==
    [][IsCollection =>
        \A k \in DOMAIN Before :
            indexName \in DOMAIN Before[k] =>
                /\ k \in DOMAIN After
                /\ indexName \in DOMAIN After[k]
                /\ After[k][indexName] = Before[k][indexName]]_vars

\* A collection that removed a blob of a workflow directory and kept its index
C5_Witness ==
    /\ call.fn = "garbageCollect"
    /\ call.result = "ok"
    /\ \E k \in DOMAIN workflows :
        /\ \E h \in DigestSet : <<k, blobName(h)>> \in call.removed
        /\ indexName \in DOMAIN workflows[k]
        /\ Entries(workflows[k][indexName]) # {}

(***************************************************************************)
(* SpecCategory: extractCategory applied to every bounded content, as      *)
(* fetchDependabotFile does (src/main.go:1456).                            *)
(***************************************************************************)
InitCategory ==
    /\ content \in CatContents
    /\ category = <<>>
    /\ doc = <<>>
    /\ uses = <<>>
    /\ scanned = 0
    /\ DbIdle
    /\ RunIdle

Classify ==
    /\ category = <<>>
    /\ category' = extractCategory(content)
    /\ UNCHANGED <<content, doc, uses, scanned, dbVars, runVars>>

NextCategory == Classify

SpecCategory == InitCategory /\ [][NextCategory]_vars

(***************************************************************************)
(* Properties of extractCategory.                                          *)
(***************************************************************************)
\* s without its leading and trailing whitespace, stated without recursion
Strip(s) ==
    LET solid == {i \in 1..Len(s) : s[i] \notin Whitespace}
    IN  IF solid = {} THEN <<>>
        ELSE SubSeq(s, CHOOSE i \in solid : \A j \in solid : i <= j,
                       CHOOSE i \in solid : \A j \in solid : i >= j)

\* line is a marker line: its stripped text starts with the marker prefix
IsMarker(line) == HasPrefix(Strip(line), prefix)

\* the payload of a marker line
Payload(line) == Strip(SubSeq(Strip(line), Len(prefix) + 1, Len(Strip(line))))

IsValidMarker(line) == IsMarker(line) /\ Payload(line) # <<>>

ContentLines == Split(content, "\n")

\* C6: extractCategory returns the trimmed payload of the first line whose
\* trimmed text starts with "# dotgithubindexer:" and whose payload is not
\* empty; empty-payload marker lines are skipped, later valid marker lines are
\* ignored, and with no qualifying line the result is "Default".
C6_FirstValidMarkerWins ==
    category # <<>> =>
        LET valid == {i \in 1..Len(ContentLines) : IsValidMarker(ContentLines[i])}
        IN  IF valid = {} THEN category = Default
            ELSE category = Payload(ContentLines[CHOOSE i \in valid : \A j \in valid : i <= j])

\* An empty-payload marker, then a valid marker, then a different valid marker
C6_Witness ==
    /\ category # <<>>
    /\ Len(ContentLines) = 3
    /\ IsMarker(ContentLines[1]) /\ ~IsValidMarker(ContentLines[1])
    /\ IsValidMarker(ContentLines[2]) /\ IsValidMarker(ContentLines[3])
    /\ Payload(ContentLines[2]) # Payload(ContentLines[3])
    /\ category = Payload(ContentLines[2])

teamAComment == prefix \o <<" ">> \o teamA

\* line carries the comment "# dotgithubindexer: teamA": its stripped text ends
\* with it, at the start of the line or after whitespace
CarriesTeamAComment(line) ==
    LET t == Strip(line)
        k == Len(t) - Len(teamAComment)
    IN  /\ k >= 0
        /\ SubSeq(t, k + 1, Len(t)) = teamAComment
        /\ (k = 0 \/ t[k] \in Whitespace)

InitUses ==
    /\ doc \in Docs
    /\ uses = <<>>
    /\ scanned = 0
    /\ content = <<>>
    /\ category = <<>>
    /\ DbIdle
    /\ RunIdle

\* One iteration of the loop over steps, for the line at position scanned+1
extractActionUsesStep ==
    /\ scanned < Len(doc)
    /\ scanned' = scanned + 1
    /\ LET l == doc[scanned + 1]
           parsed == parseUsesString(l.uses, DocText(doc))
       IN  IF l.step /\ parsed[1] # <<>>
               THEN uses' = Append(uses, [Action |-> parsed[1], Version |-> parsed[2],
                                          RepoName |-> docRepoName, FilePath |-> docFilePath])
               ELSE uses' = uses
    /\ UNCHANGED <<doc, content, category, dbVars, runVars>>

NextUses == extractActionUsesStep

SpecUses == InitUses /\ [][NextUses]_vars

(***************************************************************************)
(* Properties of parseUsesString, read off the list extractActionUses      *)
(* builds.                                                                 *)
(***************************************************************************)
\* the lines among the first n of d for which a use is appended
RECURSIVE StepsUpTo(_, _)
StepsUpTo(d, n) ==
    IF n = 0 THEN <<>>
    ELSE IF d[n].step /\ d[n].uses # <<>> /\ d[n].uses[1] # "@"
        THEN Append(StepsUpTo(d, n - 1), n)
        ELSE StepsUpTo(d, n - 1)

Steps == StepsUpTo(doc, scanned)

HasAt(u) == \E n \in 1..Len(u) : u[n] = "@"

FirstAt(u) == CHOOSE n \in 1..Len(u) : u[n] = "@" /\ \A m \in 1..(n - 1) : u[m] # "@"

\* name and version token of a uses string that has an '@'
NameOf(u) == SubSeq(u, 1, FirstAt(u) - 1)
TokenOf(u) == SubSeq(u, FirstAt(u) + 1, Len(u))

\* line l has a '#' after the end of its uses string
HasHash(l) == \E n \in 1..Len(l.post) : l.post[n] = "#"

\* the text after the first such '#', stripped
CommentOf(l) ==
    LET n == CHOOSE n \in 1..Len(l.post) : l.post[n] = "#" /\ \A m \in 1..(n - 1) : l.post[m] # "#"
    IN  Strip(SubSeq(l.post, n + 1, Len(l.post)))

\* an earlier line of the document contains both "uses:" and the uses string of line i
ShadowedBefore(i) ==
    \E j \in 1..(i - 1) :
        /\ Contains(LineText(doc[j]), usesKeyword)
        /\ Contains(LineText(doc[j]), doc[i].uses)

\* C8: parseUsesString splits on the first '@' only: the name is the text before
\* it and contains no '@', the version starts with everything after it; with no
\* '@' the name is the whole string and the version is empty.
C8_SplitOnFirstAt ==
    /\ Len(uses) = Len(Steps)
    /\ \A k \in 1..Len(uses) :
        LET u == doc[Steps[k]].uses
        IN  IF HasAt(u)
                THEN /\ uses[k].Action = NameOf(u)
                     /\ ~HasAt(uses[k].Action)
                     /\ HasPrefix(uses[k].Version, TokenOf(u))
                     /\ \/ uses[k].Version = TokenOf(u)
                        \/ HasPrefix(uses[k].Version, TokenOf(u) \o <<" ", "#", " ">>)
                ELSE uses[k].Action = u /\ uses[k].Version = <<>>

\* A use whose version token itself contains '@', and one with no '@'
C8_Witness ==
    /\ Len(uses) = 2
    /\ HasAt(uses[1].Version) /\ ~HasAt(uses[1].Action)
    /\ uses[2].Version = <<>> /\ uses[2].Action = doc[Steps[2]].uses

\* C9 as stated: a step whose own line has a '#' (followed by a comment) after
\* the uses string gets the version "token # comment", comment being the
\* trimmed text after that '#' on the step's own line.
C9_OwnLineComment ==
    /\ Len(uses) = Len(Steps)
    /\ \A k \in 1..Len(uses) :
        LET l == doc[Steps[k]]
        IN  (HasAt(l.uses) /\ HasHash(l) /\ CommentOf(l) # <<>>)
                => uses[k].Version = TokenOf(l.uses) \o <<" ", "#", " ">> \o CommentOf(l)

\* C9 amended: the same, provided no earlier line of the document contains both
\* "uses:" and the step's uses string.
C9_FirstLineComment ==
    /\ Len(uses) = Len(Steps)
    /\ \A k \in 1..Len(uses) :
        LET l == doc[Steps[k]]
        IN  (/\ HasAt(l.uses) /\ HasHash(l)
             /\ CommentOf(l) # <<>>
             /\ ~ShadowedBefore(Steps[k]))
                => uses[k].Version = TokenOf(l.uses) \o <<" ", "#", " ">> \o CommentOf(l)

\* A commented step on the third line, after a step with another uses string
C9_Witness ==
    /\ scanned = 3 /\ Len(uses) >= 2
    /\ LET l == doc[3]
       IN  /\ l.step /\ HasAt(l.uses) /\ HasHash(l) /\ CommentOf(l) # <<>>
           /\ ~ShadowedBefore(3)
           /\ doc[2].step
           /\ uses[Len(uses)].Version = TokenOf(l.uses) \o <<" ", "#", " ">> \o CommentOf(l)

\* C10 as stated: a step whose own line carries no inline comment gets exactly
\* token as its version, whatever other lines the document contains.
C10_NoCommentExactToken ==
    /\ Len(uses) = Len(Steps)
    /\ \A k \in 1..Len(uses) :
        LET l == doc[Steps[k]]
        IN  (HasAt(l.uses) /\ ~HasHash(l)) => uses[k].Version = TokenOf(l.uses)

\* C10 amended: ... provided no earlier line of the document contains both
\* "uses:" and the step's uses string.
C10_NoCommentFirstLine ==
    /\ Len(uses) = Len(Steps)
    /\ \A k \in 1..Len(uses) :
        LET l == doc[Steps[k]]
        IN  (HasAt(l.uses) /\ ~HasHash(l) /\ ~ShadowedBefore(Steps[k]))
                => uses[k].Version = TokenOf(l.uses)

\* An uncommented step followed by a commented step with the same uses string
C10_Witness ==
    /\ scanned >= 2 /\ Len(uses) >= 2
    /\ doc[1].step /\ HasAt(doc[1].uses) /\ ~HasHash(doc[1])
    /\ doc[2].step /\ doc[2].uses = doc[1].uses /\ HasHash(doc[2]) /\ CommentOf(doc[2]) # <<>>
    /\ uses[1].Version = TokenOf(doc[1].uses)

(***************************************************************************)
(* SpecExtract: extractActionUses applied to every decoded document of     *)
(* Documents, as auditGitHubActions does at line 2041.                     *)
(***************************************************************************)
InitExtract ==
    /\ doc \in Documents
    /\ uses = <<>>
    /\ scanned = 0
    /\ content = <<>>
    /\ category = <<>>
    /\ DbIdle
    /\ RunIdle

extractActionUsesCall ==
    /\ scanned = 0
    /\ scanned' = 1
    /\ uses' = extractActionUses(doc, docRepoName, docFilePath)
    /\ UNCHANGED <<doc, content, category, dbVars, runVars>>

NextExtract == extractActionUsesCall

SpecExtract == InitExtract /\ [][NextExtract]_vars

\* the positions <<job, step>> of the steps that are mappings with a string
\* `uses` naming an action, in jobs that are mappings with a steps sequence
NamedUses ==
    IF doc.err \/ doc.jobs.kind # "map" THEN {}
    ELSE {<<i, k>> \in (1..Len(doc.jobs.items)) \X (1..MaxSteps + 1) :
            LET job == doc.jobs.items[i]
            IN  /\ job.kind = "map"
                /\ job.steps.kind = "seq"
                /\ k <= Len(job.steps.items)
                /\ job.steps.items[k].kind = "map"
                /\ job.steps.items[k].uses.kind = "str"
                /\ job.steps.items[k].uses.str # <<>>
                /\ job.steps.items[k].uses.str[1] # "@"}

\* C11: extractActionUses returns a list for every document; a document that
\* is malformed, has no jobs mapping, has only jobs without a steps sequence,
\* or has only non-string uses values yields the empty list, and in general
\* the list has one entry per string-valued uses of a well-formed step.
C11_MalformedYieldsEmpty ==
    scanned = 1 =>
        /\ Len(uses) = Cardinality(NamedUses)
        /\ (doc.err \/ doc.jobs.kind # "map") => uses = <<>>
        /\ \A n \in 1..Len(uses) :
            \E p \in NamedUses :
                HasPrefix(doc.jobs.items[p[1]].steps.items[p[2]].uses.str, uses[n].Action)

\* A document with a job without steps and a job whose steps are a non-string
\* uses and a string uses: one entry
C11_Witness ==
    /\ scanned = 1
    /\ ~doc.err
    /\ Len(doc.jobs.items) = 2
    /\ doc.jobs.items[1].steps.kind = "absent"
    /\ doc.jobs.items[2].steps.kind = "seq"
    /\ Len(doc.jobs.items[2].steps.items) = 2
    /\ doc.jobs.items[2].steps.items[1].uses.kind = "int"
    /\ doc.jobs.items[2].steps.items[2].uses.kind = "str"
    /\ Len(uses) = 1

(***************************************************************************)
(* The reports over a filled database: the run is taken up after its two   *)
(* collections, with three repositories in the workflow index, two         *)
(* dependabot categories, and a usage index filled in any order.           *)
(***************************************************************************)
MaxUses == 4         \* uses ingested into the usage index

\* the ActionUse values extractActionUses hands to the loop of lines 2042-2054:
\* uses of x/a and y/b in .github/workflows/ci.yml and build.yml
UsePool ==
    LET yb == <<"y", "/", "b">>
        ciPath == Append(workflowsDirPath, <<"ci", "yml">>)
        buildPath == Append(workflowsDirPath, <<"build", "yml">>)
        ActionUse(action, version, repoName, filePath) ==
            [Action |-> action, Version |-> version, RepoName |-> repoName,
             FilePath |-> filePath]
    IN  { ActionUse(xa, <<>>, "beta", ciPath),
          ActionUse(xa, <<>>, "alpha", ciPath),
          ActionUse(xa, <<>>, "alpha", buildPath),
          ActionUse(xa, v1, "alpha", ciPath),
          ActionUse(yb, v1, "alpha", buildPath) }

\* an index.yaml over some of the owners, with the blobs it refers to
IndexedDir(m) ==
    [n \in {indexName} \cup {blobName(h) : h \in hashesInUse(m)} |->
        IF n = indexName THEN Marshal(m)
        ELSE <<KnownContents[CHOOSE i \in 1..Len(Digests) : blobName(Digests[i]) = n]>>]

InitReport ==
    LET IndexMaps(owners, digests) == UNION {[S -> digests] : S \in SUBSET owners}
    IN
    /\ TextIdle
    /\ manifest = MarshalManifest(<<"alpha", "beta", "gamma">>)
    /\ \/ /\ \E m \in IndexMaps({"alpha", "beta", "gamma"}, {"0a", "1b"}) :
                workflows = [k \in WorkflowNames |-> IndexedDir(m)]
          /\ \E m \in IndexMaps({"alpha", "beta"}, {"2c", "3d"}) :
                dependabot = [k \in {Default, teamA} |->
                                IF k = Default THEN IndexedDir(m)
                                ELSE IndexedDir([o \in {"gamma"} |-> "4e"])]
          /\ usesIndex = EmptyIndex
       \/ /\ workflows = [k \in WorkflowNames |-> IndexedDir([o \in {"alpha"} |-> "0a"])]
          /\ dependabot = <<>>
          /\ \E found \in SeqsUpTo(UsePool, MaxUses) : usesIndex = addUses(EmptyIndex, found)
    /\ summary = <<>>
    /\ usesMd = <<>>
    /\ pc = "readme"
    /\ runs = 1
    /\ repos = <<"alpha", "beta", "gamma">>
    /\ repoIdx = 4
    /\ wfs = <<>>
    /\ wfIdx = 0
    /\ dependabotFile = <<>>
    /\ call = Called("garbageCollectDependabot", <<>>, "", "", "ok", {}, {})
    /\ faults = 0
    /\ remote = Unpinned
    /\ attempted = <<<<"gc", "ok">>, <<"gc_dep", "ok">>>>
    /\ returned = ""

NextReport ==
    \/ generateReadmeFiles
    \/ generateDependabotReadmeFiles
    \/ generateDBSummary
    \/ generateUSESMarkdown

SpecReport == InitReport /\ [][NextReport]_vars

\* the heading a README line stands under
HeadingOf(readme, i) ==
    LET heads == {j \in 1..i : readme[j][1] = "##"}
    IN  IF heads = {} THEN "" ELSE readme[CHOOSE j \in heads : \A h \in heads : h <= j][2]

\* the README lists under every digest exactly its owners, ascending
ReverseMapped(entries, readme) ==
    LET ownerLines == {i \in 1..Len(readme) : readme[i][1] = "-"}
        headLines == {i \in 1..Len(readme) : readme[i][1] = "##"}
    IN  /\ {readme[i][2] : i \in headLines} = {e[2] : e \in entries}
        /\ \A i, j \in headLines : readme[i][2] = readme[j][2] => i = j
        /\ {<<readme[i][2], HeadingOf(readme, i)>> : i \in ownerLines} = entries
        /\ \A i, j \in ownerLines : readme[i][2] = readme[j][2] => i = j
        /\ \A i \in ownerLines :
            (i + 1) \in ownerLines => Rank(readme[i][2]) < Rank(readme[i + 1][2])

\* the summary table has a row for the key with the two counts of its index
Counted(rows, key, entries) ==
    \E i \in 1..Len(rows) :
        /\ rows[i].Name = key
        /\ rows[i].UniqueVersions = Cardinality({e[2] : e \in entries})
        /\ rows[i].TotalUses = Cardinality({e[1] : e \in entries})

\* C12: for every index, the README written by the report lists under each
\* digest exactly the owners mapped to it, in ascending order and each owner
\* once; the summary's unique-version count is the number of distinct digests
\* of the index and its total-uses count the number of owners.
C12_ReverseMappingAndCounts ==
    /\ \A k \in DOMAIN workflows :
        /\ readmeName \in DOMAIN workflows[k] =>
            ReverseMapped(Entries(workflows[k][indexName]), workflows[k][readmeName])
        /\ summary # <<>> =>
            Counted(summary[1].workflows, k, Entries(workflows[k][indexName]))
    /\ \A k \in DOMAIN dependabot :
        /\ readmeName \in DOMAIN dependabot[k] =>
            ReverseMapped(Entries(dependabot[k][indexName]), dependabot[k][readmeName])
        /\ summary # <<>> =>
            Counted(summary[1].dependabot, k, Entries(dependabot[k][indexName]))

\* C12 witness: the index {alpha: 0a, beta: 0a, gamma: 1b} is reported as
\* 0a: [alpha, beta], 1b: [gamma], with 2 unique versions and 3 uses.
C12_Witness ==
    /\ summary # <<>>
    /\ \E k \in DOMAIN workflows :
        /\ Entries(workflows[k][indexName])
             = {<<"alpha", "0a">>, <<"beta", "0a">>, <<"gamma", "1b">>}
        /\ readmeName \in DOMAIN workflows[k]
        /\ Tail(workflows[k][readmeName])
             = << <<"##", "0a">>, <<"-", "alpha">>, <<"-", "beta">>,
                  <<"##", "1b">>, <<"-", "gamma">> >>
        /\ summary[1].workflows = <<[Name |-> k, UniqueVersions |-> 2, TotalUses |-> 3]>>

\* the references a before b, or equal, in (owner, location) order
RefOrdered(a, b) ==
    \/ Rank(a.RepoName) < Rank(b.RepoName)
    \/ a.RepoName = b.RepoName /\ Rank(Base(a.FilePath)[1]) <= Rank(Base(b.FilePath)[1])

Occurrences(refs, r) == Cardinality({i \in 1..Len(refs) : refs[i] = r})

Shown(version) == IF version = <<>> THEN noVersion ELSE version

\* USES.md's sections are those of the index, in order
UsesReported(index, body) ==
    /\ {body[i].action : i \in 1..Len(body)} = DOMAIN index
    /\ \A i, j \in 1..Len(body) : i < j => StringLess(body[i].action, body[j].action)
    /\ \A i \in 1..Len(body) :
        LET versions == body[i].versions
            ingested == index[body[i].action]
        IN  /\ {versions[p].version : p \in 1..Len(versions)}
                 = {Shown(v) : v \in DOMAIN ingested}
            /\ \A p, q \in 1..Len(versions) :
                p < q => /\ versions[q].version # noVersion
                         /\ \/ versions[p].version = noVersion
                            \/ StringLess(versions[p].version, versions[q].version)
            /\ \A v \in DOMAIN ingested :
                \E p \in 1..Len(versions) :
                    /\ versions[p].version = Shown(v)
                    /\ Len(versions[p].refs) = Len(ingested[v])
                    /\ \A r \in {ingested[v][n] : n \in 1..Len(ingested[v])} :
                        Occurrences(versions[p].refs, r) = Occurrences(ingested[v], r)
                    /\ \A m, n \in 1..Len(versions[p].refs) :
                        m < n => RefOrdered(versions[p].refs[m], versions[p].refs[n])

\* C13: USES.md lists the actions in ascending order, under each action its
\* versions in ascending order with the empty version first, and under each
\* version exactly the ingested occurrences in ascending (repository, path)
\* order, whatever the order they were ingested in.
C13_UsesReportSorted ==
    (call.fn = "generateUSESMarkdown" /\ call.result = "ok" /\ DOMAIN usesIndex # {})
        => (usesMd # <<>> /\ UsesReported(usesIndex, usesMd[1]))

\* C13 witness: a report written from an index with two actions, an action
\* with the empty version and another one, and a version whose occurrences
\* were ingested in descending order.
C13_Witness ==
    /\ call.fn = "generateUSESMarkdown"
    /\ call.result = "ok"
    /\ usesMd # <<>>
    /\ Len(usesMd[1]) = 2
    /\ \E a \in DOMAIN usesIndex :
        /\ <<>> \in DOMAIN usesIndex[a]
        /\ DOMAIN usesIndex[a] # {<<>>}
        /\ Len(usesIndex[a][<<>>]) >= 2
        /\ ~RefOrdered(usesIndex[a][<<>>][1], usesIndex[a][<<>>][2])

(***************************************************************************)
(* Two audits of an organization that does not change: the repositories    *)
(* and files the API serves are fixed at the start and no call fails.      *)
(***************************************************************************)
InitRerun ==
    /\ TextIdle
    /\ DbIdle
    /\ pc = "idle"
    /\ runs = 0
    /\ repos = <<>>
    /\ repoIdx = 0
    /\ wfs = <<>>
    /\ wfIdx = 0
    /\ dependabotFile = <<>>
    /\ call = NoCall
    /\ faults = MaxFaults
    /\ remote \in Remotes
    /\ usesIndex = EmptyIndex
    /\ attempted = <<>>
    /\ returned = ""

NextRerun ==
    \/ BeginAudit
    \/ updateRepositoriesManifest
    \/ fetchWorkflowFiles
    \/ updateActionIndex
    \/ storeActionVersion
    \/ fetchDependabotFile
    \/ updateDependabotIndex
    \/ storeDependabotVersion
    \/ checkRateLimit
    \/ garbageCollect
    \/ garbageCollectDependabot
    \/ generateReadmeFiles
    \/ generateDependabotReadmeFiles
    \/ generateDBSummary
    \/ generateUSESMarkdown

SpecRerun == InitRerun /\ [][NextRerun]_vars

\* the index.yaml files and the blobs of a collection
IndexesAndBlobs(tree) ==
    [k \in DOMAIN tree |-> [n \in DOMAIN tree[k] \ {readmeName} |-> tree[k][n]]]

\* C14: a second audit of the same repositories and file contents leaves the
\* manifest, every index.yaml and the stored blobs as the first audit left
\* them: no step of the second audit changes any of them.
C14_SecondRunChangesNothing ==
    [][runs' = 2 =>
        /\ manifest' = manifest
        /\ IndexesAndBlobs(workflows') = IndexesAndBlobs(workflows)
        /\ IndexesAndBlobs(dependabot') = IndexesAndBlobs(dependabot)]_vars

\* C14 witness: the second audit of two repositories, both with a workflow
\* and a dependabot file, has returned.
C14_Witness ==
    /\ runs = 2
    /\ pc = "idle"
    /\ returned = "nil"
    /\ Len(remote.repos) = 2
    /\ \A i \in 1..Len(remote.repos) :
        /\ remote.dep[remote.repos[i]] # <<>>
        /\ \A n \in WorkflowNames : remote.held[remote.repos[i]][n] # <<>>
    /\ DOMAIN workflows # {}
    /\ DOMAIN dependabot # {}

\* C20: after an audit that returned, the dependabot index of its category
\* maps every repository that has a .github/dependabot.yml to the digest of
\* that file, whether or not the repository has a workflow file.
C20_DependabotIndexedForEveryRepo ==
    (pc = "idle" /\ returned = "nil") =>
        \A i \in 1..Len(remote.repos) :
            LET repoName == remote.repos[i]
                text == remote.dep[repoName]
            IN  text # <<>> =>
                    /\ extractCategory(text) \in DOMAIN dependabot
                    /\ indexName \in DOMAIN dependabot[extractCategory(text)]
                    /\ <<repoName, computeHash(text)>>
                         \in Entries(dependabot[extractCategory(text)][indexName])

(***************************************************************************)
(* The manifest, the start of the run and its post-processing, under Spec. *)
(***************************************************************************)
\* the repositories a manifest body lists, by line
ListedAt(body, i) == body[i][2]
ListedLines(body) == {i \in 1..Len(body) : body[i][1] = "-"}
ListedIn(body) == {ListedAt(body, i) : i \in ListedLines(body)}

\* C15: from the empty manifest initializeDB writes, after any calls of
\* updateRepositoriesManifest the list in repositories.yaml is in ascending
\* order and names no repository twice.
C15_ManifestSortedNoDuplicates ==
    \A i, j \in ListedLines(manifest) :
        i < j => Rank(ListedAt(manifest, i)) < Rank(ListedAt(manifest, j))

\* C15 witness: a later audit has added alpha to a manifest that listed beta.
C15_Witness ==
    /\ call.fn = "updateRepositoriesManifest"
    /\ call.owner = "alpha"
    /\ call.wrote # {}
    /\ ListedIn(manifest) = {"alpha", "beta"}

\* C16: no step of any audit removes a repository from repositories.yaml.
C16_ManifestAppendOnly ==
    [][ListedIn(manifest) \subseteq ListedIn(manifest')]_vars

\* C16 witness: the second audit has returned without having been served
\* alpha, which the manifest lists.
C16_Witness ==
    /\ runs = 2
    /\ pc = "idle"
    /\ returned = "nil"
    /\ "alpha" \in ListedIn(manifest)
    /\ \A i \in 1..Len(repos) : repos[i] # "alpha"

\* C17: once post-processing has begun, its six stages are attempted one
\* after the other whatever their results, and the audit returns nil.
C17_PostProcessingBestEffort ==
    attempted # <<>> =>
        /\ Len(attempted) <= Len(StageOrder)
        /\ \A i \in 1..Len(attempted) : attempted[i][1] = StageOrder[i]
        /\ IF Len(attempted) = Len(StageOrder)
            THEN pc = "idle" /\ returned = "nil"
            ELSE pc = StageOrder[Len(attempted) + 1] /\ returned = ""

\* C17 witness: an audit has returned nil after a stage before the last failed.
C17_Witness ==
    /\ pc = "idle"
    /\ returned = "nil"
    /\ Len(attempted) = Len(StageOrder)
    /\ \E i \in 1..(Len(StageOrder) - 1) : attempted[i][2] = "err"

\* the step is a start of an audit in which initializeDB fails
InitFails == runs' = runs + 1 /\ call'.fn = "initializeDB" /\ call'.result = "err"

\* C18: when initializeDB fails the audit returns an error at once: no
\* repository is taken up, no index.yaml, blob or report is written and no
\* post-processing stage is attempted; nothing follows but the next audit.
C18_InitFailureAborts ==
    [][/\ InitFails =>
            /\ pc' = "idle"
            /\ returned' = "err"
            /\ repos' = <<>>
            /\ attempted' = <<>>
            /\ workflows' = workflows
            /\ dependabot' = dependabot
            /\ summary' = summary
            /\ usesMd' = usesMd
       /\ (call.fn = "initializeDB" /\ call.result = "err") =>
            (runs' = runs + 1 \/ pc' = pc)]_vars

\* C18 witness: initializeDB has failed after it wrote repositories.yaml.
C18_Witness ==
    /\ call.fn = "initializeDB"
    /\ call.result = "err"
    /\ pc = "idle"
    /\ returned = "err"
    /\ manifest # <<>>

\* C19: an update of an index whose index.yaml is there but is no mapping of
\* repositories (not YAML, or an empty file) reports an error and the run
\* goes on.
C19_UnloadableIndexIsAnError ==
    [][(/\ IsUpsert
        /\ call'.key \in DOMAIN Before
        /\ indexName \in DOMAIN Before[call'.key]
        /\ Before[call'.key][indexName] \in {garbageBody, <<>>})
        => (call'.result = "err" /\ pc' # "crashed" /\ returned' # "panic")]_vars

(***************************************************************************)
(* The scope of a failure; the usage index of a run.                       *)
(***************************************************************************)
\* the step is one of the calls made for a repository, and it fails
OwnerStepFails ==
    /\ pc \in {"repo", "fetch", "wf_index", "wf_store", "dep_fetch", "dep_index",
               "dep_store", "rate"}
    /\ pc' # pc
    /\ faults' # faults \/ (call' # call /\ call'.result # "ok")

\* C21: whatever call fails for a repository (manifest update, workflow
\* fetch, index update, store, dependabot fetch, rate-limit check), the audit
\* does not return: it goes on to the next call, repository or stage.
C21_OwnerFailureIsOwnerScoped ==
    [][OwnerStepFails => (pc' \notin {"idle", "crashed"} /\ returned' = "")]_vars

\* C26: in the usage index no reference (repository, workflow file) is
\* recorded twice for one action and version.
C26_OccurrencesFormASet ==
    \A a \in DOMAIN usesIndex : \A v \in DOMAIN usesIndex[a] :
        \A i, j \in 1..Len(usesIndex[a][v]) :
            usesIndex[a][v][i] = usesIndex[a][v][j] => i = j

\* the step is a step of an audit (the index.yaml files are damaged only
\* between audits, from outside)
RunStep == ~(pc = "idle" /\ pc' = "idle" /\ runs' = runs)

\* every entry of every index of the collection is kept by the step; acts
\* tells an index update of this collection, which may give its repository a
\* new digest
EntriesKept(before, after, acts) ==
    \A k \in DOMAIN before :
        indexName \in DOMAIN before[k] =>
            \A e \in Entries(before[k][indexName]) :
                /\ k \in DOMAIN after
                /\ indexName \in DOMAIN after[k]
                /\ \/ e \in Entries(after[k][indexName])
                   \/ /\ acts
                      /\ call'.key = k
                      /\ call'.owner = e[1]
                      /\ <<e[1], call'.hash>> \in Entries(after[k][indexName])

\* C22: no step of an audit removes a repository from an index.yaml, and an
\* index update changes the digest of no repository but its own; this holds
\* for the entries of repositories the audit is not served as well.
C22_OtherOwnersKept ==
    [][RunStep =>
        /\ EntriesKept(workflows, workflows', pc = "wf_index")
        /\ EntriesKept(dependabot, dependabot', pc = "dep_index")]_vars

\* C22 witness: in a second audit, which is not served beta, the workflow
\* index that lists beta has been updated for alpha.
C22_Witness ==
    /\ runs = 2
    /\ call.fn = "updateActionIndex"
    /\ call.result = "ok"
    /\ call.owner = "alpha"
    /\ \A i \in 1..Len(repos) : repos[i] # "beta"
    /\ \E h \in DigestSet :
        Entries(workflows[call.key][indexName]) = {<<"alpha", call.hash>>, <<"beta", h>>}

\* C23: in every state every digest an index.yaml refers to has its blob
\* stored in the directory of the same key.
C23_ReferencedBlobStored ==
    /\ \A k \in DOMAIN workflows :
        indexName \in DOMAIN workflows[k] =>
            \A h \in Referenced(workflows[k]) : blobName(h) \in DOMAIN workflows[k]
    /\ \A k \in DOMAIN dependabot :
        indexName \in DOMAIN dependabot[k] =>
            \A h \in Referenced(dependabot[k]) : blobName(h) \in DOMAIN dependabot[k]

\* C24: after a failed index update of an item no blob is written for it and
\* no reference of it enters the usage index; a failed store reports its
\* error and changes no file of the collection.  For workflow files and for
\* dependabot files.
C24_FailedItemStops ==
    [][/\ (IsPut /\ call.result # "ok") => call'.wrote = {}
       /\ (RunStep /\ usesIndex' # usesIndex) =>
            \/ runs' = runs + 1
            \/ pc = "wf_store" /\ call.result = "ok" /\ call'.result = "ok"
       /\ (IsPut /\ call'.result # "ok") =>
            /\ call'.result = "err"
            /\ \A k \in DOMAIN Before : After[k] = Before[k]]_vars

\* the file is named by the digest of its content
NamedByDigest(name, body) ==
    \E i \in 1..Len(KnownContents) : body = <<KnownContents[i]>> /\ name = <<Digests[i]>>

\* every blob of the collection after the step is named by the digest of its
\* content, and is the blob it was before the step if it was there
BlobsImmutable(before, after) ==
    \A k \in DOMAIN after : \A n \in Blobs(after[k]) :
        /\ NamedByDigest(n, after[k][n])
        /\ (k \in DOMAIN before /\ n \in DOMAIN before[k]) => after[k][n] = before[k][n]

\* C25: every stored blob is named by the SHA-256 digest of its content, and
\* no step changes the content of a blob that is stored.
C25_BlobNamedByItsDigest ==
    [][BlobsImmutable(workflows, workflows') /\ BlobsImmutable(dependabot, dependabot')]_vars

\* C25 witness: a store has written a second blob next to the one of another
\* content of the same workflow.
C25_Witness ==
    /\ call.fn = "storeActionVersion"
    /\ call.result = "ok"
    /\ call.wrote # {}
    /\ Cardinality(Blobs(workflows[call.key])) = 2

(***************************************************************************)
(* Audits in which no call fails and nothing is damaged; what the API      *)
(* serves may change from one audit to the next.                           *)
(***************************************************************************)
InitClean ==
    /\ TextIdle
    /\ DbIdle
    /\ pc = "idle"
    /\ runs = 0
    /\ repos = <<>>
    /\ repoIdx = 0
    /\ wfs = <<>>
    /\ wfIdx = 0
    /\ dependabotFile = <<>>
    /\ call = NoCall
    /\ faults = MaxFaults
    /\ remote = Unpinned
    /\ usesIndex = EmptyIndex
    /\ attempted = <<>>
    /\ returned = ""

SpecClean == InitClean /\ [][NextRerun]_vars

\* the blobs of every key are those its index.yaml refers to
BlobsAreReferenced(tree) ==
    \A k \in DOMAIN tree :
        /\ indexName \in DOMAIN tree[k]
        /\ Blobs(tree[k]) = {<<e[2]>> : e \in Entries(tree[k][indexName])}

\* C27: once the two collections of an audit without failures have run, and
\* after the audit, under every key the stored blobs are exactly those whose
\* digest the key's index refers to.
C27_BlobsEqualReferenced ==
    (pc \in {"readme", "dep_readme", "summary", "uses_md"} \/ (pc = "idle" /\ returned = "nil"))
        => (BlobsAreReferenced(workflows) /\ BlobsAreReferenced(dependabot))

\* C27 witness: the collection of the second audit has removed the blob of
\* the dependabot file alpha had before, and the blob of its new content is
\* the only one of the category.
C27_Witness ==
    /\ runs = 2
    /\ pc = "readme"
    /\ call.fn = "garbageCollectDependabot"
    /\ <<Default, <<"2c">>>> \in call.removed
    /\ Entries(dependabot[Default][indexName]) = {<<"alpha", "3d">>}
    /\ Blobs(dependabot[Default]) = {<<"3d">>}

\* the dependabot categories whose index lists the repository
CategoriesOf(repoName) ==
    {k \in DOMAIN dependabot :
        /\ indexName \in DOMAIN dependabot[k]
        /\ \E e \in Entries(dependabot[k][indexName]) : e[1] = repoName}

\* C28: no repository is listed in the index of more than one dependabot
\* category.
C28_OneCategoryPerOwner ==
    \A repoName \in Owners : Cardinality(CategoriesOf(repoName)) <= 1

\* C30: after an audit, USES.md describes the usage index of that audit; it
\* has no section when that index is empty.
C30_UsesReportOfThisRun ==
    (pc = "idle" /\ returned = "nil") =>
        IF DOMAIN usesIndex = {}
            THEN usesMd = <<>> \/ usesMd[1] = <<>>
            ELSE usesMd # <<>> /\ UsesReported(usesIndex, usesMd[1])

(***************************************************************************)
(* SpecKeys: the last repository of an audit has the workflow files        *)
(* build.yml and ci.yml, which may have the same content; its files are    *)
(* indexed and stored and the two collections run (src/main.go:2026-2091). *)
(* The database holds what earlier audits left under the two names.        *)
(***************************************************************************)
InitKeys ==
    LET names == <<<<"build", "yml">>, <<"ci", "yml">>>>
        IndexMaps == UNION {[S -> {"0a", "1b"}] : S \in (SUBSET Owners) \ {{}}}
    IN
    /\ TextIdle
    /\ manifest = MarshalManifest(<<"alpha", "beta">>)
    /\ \E K \in SUBSET {names[1], names[2]} :
            workflows \in [K -> {IndexedDir(m) : m \in IndexMaps}]
    /\ dependabot \in {<<>>,
                       [k \in {Default, teamA} |->
                            IF k = Default THEN IndexedDir([o \in {"alpha"} |-> "2c"])
                            ELSE IndexedDir([o \in {"beta"} |-> "4e"])]}
    /\ summary = <<>>
    /\ usesMd = <<>>
    /\ \E repo \in Owners,
          held \in [{names[1], names[2]} -> WorkflowContents \cup {<<>>}] :
            /\ workflowFiles(repo, names, held) # <<>>
            /\ repos = <<repo>>
            /\ wfs = workflowFiles(repo, names, held)
            /\ call = Called("updateRepositoriesManifest", <<>>, repo, "", "ok", {}, {})
    /\ repoIdx = 1
    /\ wfIdx = 1
    /\ pc = "wf_index"
    /\ runs = 1
    /\ dependabotFile = <<>>
    /\ faults = 0
    /\ remote = Unpinned
    /\ usesIndex = EmptyIndex
    /\ attempted = <<>>
    /\ returned = ""

NextKeys ==
    \/ updateActionIndex
    \/ storeActionVersion
    \/ fetchDependabotFile
    \/ updateDependabotIndex
    \/ storeDependabotVersion
    \/ checkRateLimit
    \/ garbageCollect
    \/ garbageCollectDependabot

SpecKeys == InitKeys /\ [][NextKeys]_vars

\* every key but the one the call names has the directory it had
OtherKeysKept(before, after, key) ==
    \A k \in (DOMAIN before \cup DOMAIN after) \ {key} :
        k \in DOMAIN before /\ k \in DOMAIN after /\ after[k] = before[k]

\* the collection has removed of directory k the blobs k's own index does not
\* refer to, and no other blob
CollectedByOwnIndex(before, after) ==
    \A k \in DOMAIN before : \A n \in Blobs(before[k]) :
        n \notin DOMAIN after[k]
            <=> (Parseable(before[k]) /\ n \notin {blobName(h) : h \in Referenced(before[k])})

\* C29: an index update or a store for key k changes nothing under another key
\* and nothing in the other collection; a collection that succeeds deletes a
\* blob under key k exactly when k's own index does not refer to it, whatever
\* the indexes of the other keys refer to, and one that fails deletes nothing.
C29_KeysAreIndependent ==
    [][/\ (IsUpsert \/ IsPut) =>
            /\ OtherKeysKept(Before, After, call'.key)
            /\ pc \in {"wf_index", "wf_store"} => dependabot' = dependabot
            /\ pc \in {"dep_index", "dep_store"} => workflows' = workflows
       /\ IsCollection =>
            /\ DOMAIN After = DOMAIN Before
            /\ pc = "gc" => dependabot' = dependabot
            /\ pc = "gc_dep" => workflows' = workflows
            /\ IF call'.result = "ok" THEN CollectedByOwnIndex(Before, After)
               ELSE After = Before]_vars

\* C29 witness: the collection has deleted the blob 0a under ci.yml, whose
\* index no longer refers to it, while build.yml, whose index refers to 0a,
\* keeps its blob 0a.
C29_Witness ==
    /\ call.fn = "garbageCollect"
    /\ <<<<"ci", "yml">>, blobName("0a")>> \in call.removed
    /\ <<"build", "yml">> \in DOMAIN workflows
    /\ "0a" \in Referenced(workflows[<<"build", "yml">>])
    /\ blobName("0a") \in DOMAIN workflows[<<"build", "yml">>]

====
